---- MODULE Spec2Model ----
(***************************************************************************)
(* MindPal: the mood classifier of the useChatSessions hook, and the glue  *)
(* around it: generateMoodReport, VoiceAI's chat input, useSettings, and   *)
(* the Dashboard with useNotifications.                                    *)
(*                                                                         *)
(* analyzeMoodFromText is a pure function over a text.  Texts are TLA+     *)
(* strings; toLowerCase and split work on them character by character.     *)
(* Each component has its own specification over the shared variables:     *)
(* SpecAnalyze, SpecReport, SpecChat, SpecSettings and SpecDashboard.      *)
(***************************************************************************)
EXTENDS Integers, Sequences, FiniteSets, TLC

VARIABLES
    text,           \* the argument of analyzeMoodFromText
    typed,          \* how many pieces were appended to the initial text
    pc,             \* "compose" before the call, "returned" after it
    words,          \* local: text.toLowerCase().split(/\s+/)
    positiveCount,  \* local
    negativeCount,  \* local
    stressCount,    \* local
    returned        \* <<>> before the call, <<the MoodAnalysis>> after it

\* The persistence store and the signed-in user.
VARIABLES
    user,           \* useAuth().user: a user id, or "none" for null
    chat_messages,  \* table: the rows in the order of their created_at
    mood_analytics, \* table
    encrypted_data  \* what storeEncryptedData has stored

\* useChatSessions: its state and its calls in flight.
VARIABLES
    sessions,       \* useState<ChatSession[]>
    currentSession, \* useState<ChatSession | null>: <<>> for null, else <<session>>
    messages,       \* useState<ChatMessage[]>
    loading,        \* useState(true)
    reports,        \* the generateMoodReport calls: position and locals of each
    analyses,       \* every analyzeMoodFromText call so far: its argument and its value
    toast,          \* the notice shown last ("" for none): a notice is transient
    consoleError    \* the message console.error logged last ("" for none)

\* VoiceAI: the chat sessions of the store, and the chat input in flight.
VARIABLES
    chat_sessions,  \* table: the session ids, the one updated last first
    isProcessing,   \* useState(false)
    chat,           \* processChatInput, per call in flight: its position, its
                    \* argument, and the currentSession and messages of the
                    \* render that made it
    loadRequests,   \* the sessions whose loadMessages select is in flight
    aiRequest,      \* the request getGeminiResponse sent last: << >> for none
    textInput,      \* useState('')
    isListening,    \* useState(false)
    recognition,    \* the SpeechRecognition object: off, listening or heard
    titles,         \* the title of each session in the table (store), of each
                    \* session of sessions (list), and of currentSession
    sessionRequests \* the deleteSession and updateSessionTitle calls in flight

\* useSettings: the settings table and the hook instances.
VARIABLES
    user_settings,  \* table: rows of a user id and the settings values
    settingsHooks   \* per instance: settings, loading, and loadSettings in flight

\* Dashboard and useNotifications.
VARIABLES
    notification_rows, \* table notifications
    notifications,     \* useState<Notification[]>
    tasks,             \* table: the completed flag of each task of the user
    mood_entries,      \* table: the moods entered today, the latest first
    voice_sessions,    \* table: the ids of the voice sessions of the user
    stats,             \* useState of Dashboard
    outcome            \* the operation that returned last: what failed in it,
                       \* what it logged and which notices it showed

\* useNotifications: the browser around scheduleNotification.
VARIABLES
    now,            \* Date.now(), in minutes since midnight of the first day
    permission,     \* Notification.permission
    scheduling,     \* the scheduleNotification calls whose insert is in flight
    timers,         \* the pending setTimeout callbacks
    fired           \* the browser notifications shown so far

analyzeVars == <<text, typed, pc, words, positiveCount, negativeCount, stressCount, returned>>
storeVars == <<user, chat_messages, mood_analytics, encrypted_data>>
hookVars == <<sessions, currentSession, messages, loading>>
reportVars == <<reports, analyses>>
noticeVars == <<toast, consoleError>>
sessionVars == <<titles, sessionRequests>>
chatVars ==
    <<chat_sessions, isProcessing, chat, loadRequests, aiRequest, textInput, isListening,
      recognition, sessionVars>>

\* The state of the components that an action of another component leaves alone.
settingsVars == <<user_settings, settingsHooks>>
dashboardVars ==
    <<notification_rows, notifications, tasks, mood_entries, voice_sessions, stats, outcome>>
reminderVars == <<now, permission, scheduling, timers, fired>>
glueVars == <<chatVars, settingsVars, dashboardVars, reminderVars>>

\* What no action of VoiceAI and useChatSessions changes.
notChat == <<settingsVars, dashboardVars, reminderVars>>

vars == <<analyzeVars, storeVars, hookVars, reportVars, noticeVars, glueVars>>

(***************************************************************************)
(* Bounds and the inputs drawn.                                            *)
(***************************************************************************)
MaxAppend == 2

\* Texts the call may start from.
SeedTexts ==
    { "",
      "I feel happy and good today",
      "stress stress stress stress",
      "good bad",
      "HAPPY",
      "happy.",
      "Stress stress\n\tstress" }

\* What may be appended to a text, and what separates it from the text so far.
Pieces == { "happy", "Good", "bad", "stress", ".", "\t" }
Separators == { "", " " }

(***************************************************************************)
(* Strings.                                                                *)
(***************************************************************************)
CharAt(s, i) == SubSeq(s, i, i)

UpperCaseLetters == "ABCDEFGHIJKLMNOPQRSTUVWXYZ"
LowerCaseLetters == "abcdefghijklmnopqrstuvwxyz"

\* The characters /\s/ matches, among those of the texts drawn.
WhiteSpace == { " ", "\t", "\n" }

\* The lower-case letter of every upper-case letter.
lowerCaseOf ==
    [ c \in { CharAt(UpperCaseLetters, i) : i \in 1..Len(UpperCaseLetters) } |->
        CharAt(LowerCaseLetters,
               CHOOSE i \in 1..Len(UpperCaseLetters) : CharAt(UpperCaseLetters, i) = c) ]

toLowerCaseChar(c) == IF c \in DOMAIN lowerCaseOf THEN lowerCaseOf[c] ELSE c

RECURSIVE toLowerCaseFrom(_, _)
toLowerCaseFrom(s, i) ==
    IF i > Len(s) THEN ""
    ELSE toLowerCaseChar(CharAt(s, i)) \o toLowerCaseFrom(s, i + 1)

\* String.prototype.toLowerCase
toLowerCase(s) == toLowerCaseFrom(s, 1)

\* String.prototype.split(/\s+/): every maximal run of whitespace separates two
\* tokens; the token before the first run and the token after the last run are
\* produced even when they are empty.
RECURSIVE splitFrom(_, _, _, _)
splitFrom(s, i, cur, inRun) ==
    IF i > Len(s) THEN << cur >>
    ELSE IF CharAt(s, i) \in WhiteSpace
         THEN IF inRun THEN splitFrom(s, i + 1, cur, TRUE)
              ELSE << cur >> \o splitFrom(s, i + 1, "", TRUE)
         ELSE splitFrom(s, i + 1, cur \o CharAt(s, i), FALSE)

\* Mutant: split(/\s/), every single whitespace character separates two tokens.
RECURSIVE splitEveryFrom(_, _, _)
splitEveryFrom(s, i, cur) ==
    IF i > Len(s) THEN << cur >>
    ELSE IF CharAt(s, i) \in WhiteSpace
         THEN << cur >> \o splitEveryFrom(s, i + 1, "")
         ELSE splitEveryFrom(s, i + 1, cur \o CharAt(s, i))

split_EveryWhitespace(s) == splitEveryFrom(s, 1, "")

split(s) == splitFrom(s, 1, "", FALSE)

\* Mutant: list.some(w => word.startsWith(w)).
includes_StartsWith(list, word) ==
    \E i \in 1..Len(list) :
        Len(word) >= Len(list[i]) /\ SubSeq(word, 1, Len(list[i])) = list[i]

\* Mutant: list.some(w => w.includes(word)), the test the wrong way round.
includes_Reversed(list, word) ==
    \E i \in 1..Len(list) :
        \E a \in 1..(Len(list[i]) + 1) :
            a + Len(word) - 1 <= Len(list[i])
            /\ SubSeq(list[i], a, a + Len(word) - 1) = word

\* Array.prototype.includes
includes(list, word) == \E i \in 1..Len(list) : list[i] = word

\* Array.prototype.join
RECURSIVE join(_, _)
join(list, sep) ==
    IF Len(list) = 0 THEN ""
    ELSE IF Len(list) = 1 THEN list[1]
    ELSE list[1] \o sep \o join(Tail(list), sep)

(***************************************************************************)
(* analyzeMoodFromText                                                     *)
(***************************************************************************)
positiveWords ==
    << "happy", "good", "great", "excellent", "wonderful", "amazing", "love", "joy", "excited" >>
\* Mutant: the list is shared by the calls, and a call has pushed a word to it.
negativeWords_SharedAndGrown ==
    IF analyses = { }
    THEN << "sad", "bad", "terrible", "awful", "hate", "angry", "depressed", "worried", "anxious" >>
    ELSE << "sad", "bad", "terrible", "awful", "hate", "angry", "depressed", "worried", "anxious",
            "good" >>

negativeWords ==
    << "sad", "bad", "terrible", "awful", "hate", "angry", "depressed", "worried", "anxious" >>
stressWords ==
    << "stress", "pressure", "overwhelmed", "busy", "tired", "exhausted", "deadline" >>

\* Mutant: text.split(/\s+/), the case kept.
tokenize_CaseKept(t) == split(t)

\* const words = text.toLowerCase().split(/\s+/)
tokenize(t) == split(toLowerCase(t))

\* words.filter(word => list.includes(word)).length
countIncluded(ws, list) == Len(SelectSeq(ws, LAMBDA word : includes(list, word)))

\* Mutant: >= for >, a tie counts as positive.
overallMood_TiePositive(pCount, nCount) ==
    IF pCount >= nCount THEN "positive"
    ELSE IF nCount > pCount THEN "negative"
    ELSE "neutral"

overallMood(pCount, nCount) ==
    IF pCount > nCount THEN "positive"
    ELSE IF nCount > pCount THEN "negative"
    ELSE "neutral"

\* Mutant: the larger of the positive and negative counts is reported first.
detectEmotions_ByMagnitude(pCount, nCount, sCount) ==
    (IF nCount > pCount
     THEN (IF nCount > 0 THEN << "sadness", "frustration" >> ELSE << >>)
          \o (IF pCount > 0 THEN << "happiness", "contentment" >> ELSE << >>)
     ELSE (IF pCount > 0 THEN << "happiness", "contentment" >> ELSE << >>)
          \o (IF nCount > 0 THEN << "sadness", "frustration" >> ELSE << >>))
    \o (IF sCount > 0 THEN << "stress", "anxiety" >> ELSE << >>)

\* Mutant: emotions.push('stress') only.
detectEmotions_HalfPair(pCount, nCount, sCount) ==
    (IF pCount > 0 THEN << "happiness", "contentment" >> ELSE << >>)
    \o (IF nCount > 0 THEN << "sadness", "frustration" >> ELSE << >>)
    \o (IF sCount > 0 THEN << "stress" >> ELSE << >>)

detectEmotions(pCount, nCount, sCount) ==
    (IF pCount > 0 THEN << "happiness", "contentment" >> ELSE << >>)
    \o (IF nCount > 0 THEN << "sadness", "frustration" >> ELSE << >>)
    \o (IF sCount > 0 THEN << "stress", "anxiety" >> ELSE << >>)

\* Mutant: >= 3 for > 3.
stressLevel_HighAtThree(sCount) ==
    IF sCount >= 3 THEN "high" ELSE IF sCount > 1 THEN "medium" ELSE "low"

\* Mutant: no stress word gives no level.
stressLevel_NoneAtZero(sCount) ==
    IF sCount > 3 THEN "high"
    ELSE IF sCount > 1 THEN "medium"
    ELSE IF sCount > 0 THEN "low"
    ELSE "none"

stressLevel(sCount) ==
    IF sCount > 3 THEN "high" ELSE IF sCount > 1 THEN "medium" ELSE "low"

\* Mutant: the break/breathing block also on medium stress.
recommend_OnMedium(mood, stress) ==
    (IF mood = "negative"
     THEN << "Consider practicing mindfulness or meditation",
             "Reach out to friends or family for support" >>
     ELSE << >>)
    \o (IF stress # "low"
        THEN << "Take regular breaks throughout your day",
                "Try deep breathing exercises" >>
        ELSE << >>)

recommend(mood, stress) ==
    (IF mood = "negative"
     THEN << "Consider practicing mindfulness or meditation",
             "Reach out to friends or family for support" >>
     ELSE << >>)
    \o (IF stress = "high"
        THEN << "Take regular breaks throughout your day",
                "Try deep breathing exercises" >>
        ELSE << >>)

\* Mutant: the clause is written whether or not an emotion was detected.
summarize_ClauseAlways(mood, stress, emos) ==
    "Based on your conversation, you seem to be feeling " \o mood
    \o " with a " \o stress \o " stress level. "
    \o "Main emotions detected: " \o join(emos, ", ") \o "."

summarize(mood, stress, emos) ==
    "Based on your conversation, you seem to be feeling " \o mood
    \o " with a " \o stress \o " stress level. "
    \o (IF Len(emos) > 0
        THEN "Main emotions detected: " \o join(emos, ", ") \o "."
        ELSE "")

\* The value analyzeMoodFromText returns, from its three counts.
moodAnalysis(pCount, nCount, sCount) ==
    LET mood   == overallMood(pCount, nCount)
        emos   == detectEmotions(pCount, nCount, sCount)
        stress == stressLevel(sCount)
    IN  [ overall_mood    |-> mood,
          emotions        |-> emos,
          stress_level    |-> stress,
          recommendations |-> recommend(mood, stress),
          summary         |-> summarize(mood, stress, emos) ]

\* The value returned for the tokens of a text.
analyzeWords(ws) ==
    moodAnalysis(countIncluded(ws, positiveWords),
                 countIncluded(ws, negativeWords),
                 countIncluded(ws, stressWords))

analyzeMoodFromText(t) == analyzeWords(tokenize(t))

(***************************************************************************)
(* The classifier applied to a text.                                       *)
(***************************************************************************)
\* The callers of generateMoodReport.
ReportIds == { "r1", "r2" }

\* A generateMoodReport call not made yet.  Of its fields, chronological and
\* failed are not of the code: the rows the select matched in the order of
\* their created_at, and the request that failed.
IdleReport ==
    [ pc               |-> "idle",
      sessionId        |-> "",
      chronological    |-> << >>,
      messagesData     |-> << >>,
      conversationText |-> "",
      analysis         |-> << >>,
      result           |-> << >>,
      failed           |-> "" ]

\* The store empty, nobody signed in, the hook as constructed, no call made.
\* processChatInput before it is called.
\* userInserted tells whether the insert of the user message stored its row.
IdleChat ==
    [ pc |-> "idle", input |-> "", sessionToUse |-> << >>, messages |-> << >>,
      aiResponse |-> "", userInserted |-> FALSE ]

\* No session, so no title.
NoTitles == [ store |-> << >>, list |-> << >>, current |-> << >> ]

\* The calls of processChatInput that may be in flight together.
ChatIds == { "c1", "c2" }

\* VoiceAI after construction, with no chat session in the store.
ChatAtRest ==
    /\ chat_sessions = << >>
    /\ isProcessing = FALSE
    /\ chat = [ c \in ChatIds |-> IdleChat ]
    /\ loadRequests = { }
    /\ aiRequest = << >>
    /\ textInput = ""
    /\ isListening = FALSE
    /\ recognition = "off"
    /\ titles = NoTitles
    /\ sessionRequests = { }

\* const defaultSettings
defaultSettings ==
    [ theme               |-> "light",
      language            |-> "en",
      voice_speed         |-> "normal",
      ai_personality      |-> "supportive",
      task_reminders      |-> TRUE,
      mood_reminders      |-> TRUE,
      daily_summary       |-> TRUE,
      email_notifications |-> FALSE,
      data_sharing        |-> FALSE,
      analytics           |-> TRUE,
      voice_recordings    |-> TRUE ]

SettingsHookIds == { "h1", "h2" }

\* A useSettings instance after construction.  found, applied, inserted and
\* failed are of its last loadSettings: the data of the select, the values
\* given to setSettings, the row createDefaultSettings stored, and the call
\* that failed.
NewSettingsHook ==
    [ pc       |-> "idle",
      settings |-> defaultSettings,
      loading  |-> TRUE,
      found    |-> << >>,
      applied  |-> << >>,
      inserted |-> << >>,
      failed   |-> "" ]

SettingsAtRest ==
    /\ user_settings = << >>
    /\ settingsHooks = [ h \in SettingsHookIds |-> NewSettingsHook ]

\* No operation has returned yet.
NoOutcome == [ operation |-> "", failure |-> "", logs |-> << >>, notices |-> << >> ]

\* useState of Dashboard: its initial value.
InitialStats == [ totalTasks |-> 0, completedTasks |-> 0, todayMood |-> << >>, voiceSessions |-> 0 ]

DashboardAtRest ==
    /\ notification_rows = << >>
    /\ notifications = << >>
    /\ tasks = << >>
    /\ mood_entries = << >>
    /\ voice_sessions = << >>
    /\ stats = InitialStats
    /\ outcome = NoOutcome

\* The browser with no notification scheduled and no permission given.
RemindersAtRest ==
    /\ now = 0
    /\ permission = "default"
    /\ scheduling = { }
    /\ timers = << >>
    /\ fired = << >>

\* The other components after construction.
GlueAtRest == ChatAtRest /\ SettingsAtRest /\ DashboardAtRest /\ RemindersAtRest

HookAtRest ==
    /\ GlueAtRest
    /\ user = "none"
    /\ chat_messages = << >>
    /\ mood_analytics = << >>
    /\ encrypted_data = << >>
    /\ sessions = << >>
    /\ currentSession = << >>
    /\ messages = << >>
    /\ loading = TRUE
    /\ reports = [ r \in ReportIds |-> IdleReport ]
    /\ analyses = { }
    /\ toast = ""
    /\ consoleError = ""

InitAnalyze ==
    /\ text \in SeedTexts
    /\ typed = 0
    /\ pc = "compose"
    /\ words = << >>
    /\ positiveCount = 0
    /\ negativeCount = 0
    /\ stressCount = 0
    /\ returned = << >>
    /\ HookAtRest

\* The text grows by one piece before the call.
ComposeText ==
    /\ pc = "compose"
    /\ typed < MaxAppend
    /\ \E sep \in Separators, piece \in Pieces : text' = text \o sep \o piece
    /\ typed' = typed + 1
    /\ UNCHANGED <<pc, words, positiveCount, negativeCount, stressCount, returned>>
    /\ UNCHANGED <<storeVars, hookVars, reportVars, noticeVars, glueVars>>

\* analyzeMoodFromText(text), start to return.
CallAnalyzeMoodFromText ==
    /\ pc = "compose"
    /\ words' = tokenize(text)
    /\ positiveCount' = countIncluded(words', positiveWords)
    /\ negativeCount' = countIncluded(words', negativeWords)
    /\ stressCount' = countIncluded(words', stressWords)
    /\ returned' = << analyzeWords(words') >>
    /\ pc' = "returned"
    /\ UNCHANGED <<text, typed>>
    /\ UNCHANGED <<storeVars, hookVars, reportVars, noticeVars, glueVars>>

NextAnalyze == ComposeText \/ CallAnalyzeMoodFromText

SpecAnalyze == InitAnalyze /\ [][NextAnalyze]_vars

(***************************************************************************)
(* Properties of analyzeMoodFromText.                                      *)
(***************************************************************************)
Range(f) == { f[i] : i \in DOMAIN f }

\* The position of a label in a list of labels, 0 when it is not in it.
IndexIn(list, x) ==
    IF \E i \in 1..Len(list) : list[i] = x
    THEN CHOOSE i \in 1..Len(list) : list[i] = x
    ELSE 0

MoodAnalysisFields ==
    { "overall_mood", "emotions", "stress_level", "recommendations", "summary" }

\* A well-formed Mood Analysis: the five fields, both enumerations closed.
IsMoodAnalysis(a) ==
    /\ DOMAIN a = MoodAnalysisFields
    /\ a.overall_mood \in { "positive", "negative", "neutral" }
    /\ a.stress_level \in { "low", "medium", "high" }

\* C1: for every text, the empty one included, analyzeMoodFromText has a value
\* (no text is outside its domain, so the call cannot fail) and the call returns
\* it: a Mood Analysis whose overall_mood is one of positive/negative/neutral
\* and whose stress_level is one of low/medium/high.
C1_TotalEnumClosed ==
    /\ pc = "compose" => IsMoodAnalysis(analyzeMoodFromText(text))
    /\ pc = "returned" =>
        /\ Len(returned) = 1
        /\ IsMoodAnalysis(returned[1])

\* The call has returned for the empty text, which holds no stress word.
C1_Witness ==
    /\ pc = "returned"
    /\ text = ""
    /\ Len(returned) = 1
    /\ returned[1].stress_level = "low"

\* C2: the mood is positive iff positive-count > negative-count, negative iff
\* negative-count > positive-count, neutral in every other case (0 against 0
\* and every tie, "good bad" among them).
C2_OverallMood ==
    pc = "returned" =>
        /\ returned[1].overall_mood = "positive" <=> positiveCount > negativeCount
        /\ returned[1].overall_mood = "negative" <=> negativeCount > positiveCount
        /\ returned[1].overall_mood = "neutral" <=> positiveCount = negativeCount
        /\ text = "good bad" =>
            /\ positiveCount = 1
            /\ negativeCount = 1
            /\ returned[1].overall_mood = "neutral"
        /\ text = "I feel happy and good today" =>
            /\ positiveCount = 2
            /\ negativeCount = 0
            /\ returned[1].overall_mood = "positive"

\* A tie of non-zero counts has been classified.
C2_Witness ==
    /\ pc = "returned"
    /\ positiveCount = negativeCount
    /\ positiveCount > 0
    /\ returned[1].overall_mood = "neutral"

\* C3: the stress level is high exactly when stress-count > 3, medium exactly
\* when it is 2 or 3, low exactly when it is 0 or 1.
C3_StressLevel ==
    pc = "returned" =>
        /\ returned[1].stress_level = "high" <=> stressCount > 3
        /\ returned[1].stress_level = "medium" <=> stressCount \in { 2, 3 }
        /\ returned[1].stress_level = "low" <=> stressCount \in { 0, 1 }
        /\ text = "stress stress stress stress" =>
            /\ stressCount = 4
            /\ returned[1].stress_level = "high"

\* A text with exactly three stress words has been classified as medium.
C3_Witness ==
    /\ pc = "returned"
    /\ stressCount = 3
    /\ returned[1].stress_level = "medium"

EmotionOrder ==
    << "happiness", "contentment", "sadness", "frustration", "stress", "anxiety" >>

\* C4: the emotions are [happiness, contentment] if positive-count > 0, then
\* [sadness, frustration] if negative-count > 0, then [stress, anxiety] if
\* stress-count > 0, in this order whatever the sizes of the counts, and no
\* other label.
C4_EmotionsInFixedOrder ==
    pc = "returned" =>
        LET e == returned[1].emotions
        IN  /\ \A i \in 1..Len(e) : IndexIn(EmotionOrder, e[i]) > 0
            /\ \A i \in 1..Len(e) : \A j \in 1..Len(e) :
                   i < j => IndexIn(EmotionOrder, e[i]) < IndexIn(EmotionOrder, e[j])
            /\ { "happiness", "contentment" } \subseteq Range(e) <=> positiveCount > 0
            /\ { "sadness", "frustration" } \subseteq Range(e) <=> negativeCount > 0
            /\ { "stress", "anxiety" } \subseteq Range(e) <=> stressCount > 0
            /\ Len(e) = 2 * Cardinality({ c \in { "p", "n", "s" } :
                                            \/ c = "p" /\ positiveCount > 0
                                            \/ c = "n" /\ negativeCount > 0
                                            \/ c = "s" /\ stressCount > 0 })

\* All three pairs were detected in a text with more negative than positive words.
C4_Witness ==
    /\ pc = "returned"
    /\ negativeCount > positiveCount
    /\ positiveCount > 0
    /\ stressCount > 0
    /\ returned[1].emotions = EmotionOrder

\* C5: of each pair (happiness, contentment), (sadness, frustration), (stress,
\* anxiety) the emotions hold both labels or neither, and no label twice.
C5_PairsWholeNoDuplicate ==
    pc = "returned" =>
        LET e == returned[1].emotions
        IN  /\ "happiness" \in Range(e) <=> "contentment" \in Range(e)
            /\ "sadness" \in Range(e) <=> "frustration" \in Range(e)
            /\ "stress" \in Range(e) <=> "anxiety" \in Range(e)
            /\ \A i \in 1..Len(e) : \A j \in 1..Len(e) : i # j => e[i] # e[j]

\* Only the stress pair was detected.
C5_Witness ==
    /\ pc = "returned"
    /\ returned[1].emotions = << "stress", "anxiety" >>

MindfulnessSupport ==
    << "Consider practicing mindfulness or meditation",
       "Reach out to friends or family for support" >>
BreakBreathing ==
    << "Take regular breaks throughout your day",
       "Try deep breathing exercises" >>

\* C6: the recommendations are the two mindfulness/support suggestions iff the
\* mood is negative, followed by the two break/breathing suggestions iff the
\* stress level is high: 0, 2 or 4 of them, none when the mood is not negative
\* and the stress not high.
C6_Recommendations ==
    pc = "returned" =>
        LET r    == returned[1].recommendations
            neg  == returned[1].overall_mood = "negative"
            high == returned[1].stress_level = "high"
        IN  /\ Len(r) \in { 0, 2, 4 }
            /\ neg <=> (Len(r) >= 2 /\ SubSeq(r, 1, 2) = MindfulnessSupport)
            /\ high <=> (Len(r) >= 2 /\ SubSeq(r, Len(r) - 1, Len(r)) = BreakBreathing)
            /\ Len(r) = (IF neg THEN 2 ELSE 0) + (IF high THEN 2 ELSE 0)
            /\ (~neg /\ ~high) => r = << >>

\* Both blocks were recommended: a negative mood with high stress.
C6_Witness ==
    /\ pc = "returned"
    /\ returned[1].recommendations = MindfulnessSupport \o BreakBreathing

\* The word sets of the classifier's description.
PositiveSet ==
    { "happy", "good", "great", "excellent", "wonderful", "amazing", "love", "joy", "excited" }
NegativeSet ==
    { "sad", "bad", "terrible", "awful", "hate", "angry", "depressed", "worried", "anxious" }
StressSet ==
    { "stress", "pressure", "overwhelmed", "busy", "tired", "exhausted", "deadline" }

\* The number of tokens, every occurrence counted, that are members of a set.
Occurrences(tokens, set) == Cardinality({ i \in 1..Len(tokens) : tokens[i] \in set })

\* A token holds a listed word without being that word.
HoldsListedWord(token) ==
    \E w \in PositiveSet \cup NegativeSet \cup StressSet :
        /\ token # w
        /\ \E a \in 1..Len(token) : \E b \in a..Len(token) : SubSeq(token, a, b) = w

\* C7: each count is the number of token occurrences (not of distinct words)
\* equal to a member of its word set; a token that only holds a listed word as
\* a substring or prefix is not counted.
C7_CountsExactTokenOccurrences ==
    pc = "returned" =>
        /\ positiveCount = Occurrences(words, PositiveSet)
        /\ negativeCount = Occurrences(words, NegativeSet)
        /\ stressCount = Occurrences(words, StressSet)

\* One listed word occurred twice and was counted twice, beside a token that
\* begins with a listed word and was not counted.
C7_Witness ==
    /\ pc = "returned"
    /\ positiveCount = 2
    /\ \E i \in 1..Len(words) : \E j \in 1..Len(words) :
           i # j /\ words[i] = "happy" /\ words[j] = "happy"
    /\ \E i \in 1..Len(words) :
           HoldsListedWord(words[i]) /\ SubSeq(words[i], 1, 5) = "happy"

\* The upper-case letter of every lower-case letter.
upperCaseOf ==
    [ c \in { CharAt(LowerCaseLetters, i) : i \in 1..Len(LowerCaseLetters) } |->
        CharAt(UpperCaseLetters,
               CHOOSE i \in 1..Len(LowerCaseLetters) : CharAt(LowerCaseLetters, i) = c) ]

RECURSIVE MapChars(_, _, _)
MapChars(f, s, i) ==
    IF i > Len(s) THEN ""
    ELSE (IF CharAt(s, i) \in DOMAIN f THEN f[CharAt(s, i)] ELSE CharAt(s, i))
         \o MapChars(f, s, i + 1)

\* Two texts that differ from s in letter case only: every letter upper-case,
\* and the case of every letter inverted.
AllUpperCase(s) == MapChars(upperCaseOf, s, 1)
CaseInverted(s) == MapChars(upperCaseOf @@ lowerCaseOf, s, 1)

\* Listed words with punctuation attached.
PunctuatedWords == { "happy.", "good." }

\* C8: texts that differ only in letter case get the same result, and a token
\* with punctuation attached ("happy.", "good.") is not counted as the listed
\* word: one more such token leaves every count and the result as they were.
C8_CaseInsensitivePunctuationKept ==
    pc = "returned" =>
        /\ analyzeMoodFromText(AllUpperCase(text)) = returned[1]
        /\ analyzeMoodFromText(CaseInverted(text)) = returned[1]
        /\ \A w \in PunctuatedWords :
               LET ws == tokenize(text \o " " \o w)
               IN  /\ countIncluded(ws, positiveWords) = positiveCount
                   /\ countIncluded(ws, negativeWords) = negativeCount
                   /\ countIncluded(ws, stressWords) = stressCount
        /\ text = "HAPPY" => positiveCount = 1
        /\ text = "happy." => positiveCount = 0

\* A text in mixed case with listed words, one of them with a full stop attached.
C8_Witness ==
    /\ pc = "returned"
    /\ text # toLowerCase(text)
    /\ text # AllUpperCase(text)
    /\ positiveCount > 0
    /\ \E i \in 1..Len(words) : words[i] \in { "happy.", "good.", "bad.", "stress." }

\* C9: for the empty text the mood is neutral, the stress low, the emotions and
\* the recommendations empty, the summary without emotion clause, and the three
\* counts zero.
C9_EmptyText ==
    (pc = "returned" /\ text = "") =>
        /\ positiveCount = 0
        /\ negativeCount = 0
        /\ stressCount = 0
        /\ returned[1].overall_mood = "neutral"
        /\ returned[1].stress_level = "low"
        /\ returned[1].emotions = << >>
        /\ returned[1].recommendations = << >>
        /\ returned[1].summary =
               "Based on your conversation, you seem to be feeling neutral with a low stress level. "

\* The empty text has been classified.
C9_Witness ==
    /\ pc = "returned"
    /\ text = ""
    /\ typed = 0
    /\ Len(returned[1].emotions) = 0

\* The characters of s that are not whitespace.
RECURSIVE Squeeze(_, _)
Squeeze(s, i) ==
    IF i > Len(s) THEN ""
    ELSE (IF CharAt(s, i) \in WhiteSpace THEN "" ELSE CharAt(s, i)) \o Squeeze(s, i + 1)

\* The number of maximal runs of whitespace in s.
WhitespaceRuns(s) ==
    Cardinality({ i \in 1..Len(s) :
                    /\ CharAt(s, i) \in WhiteSpace
                    /\ (i = 1 \/ CharAt(s, i - 1) \notin WhiteSpace) })

\* The tokens are the lower-cased text cut at its runs of whitespace: one token
\* more than there are runs, none with whitespace or an upper-case letter in
\* it, together the characters of the text in order; only the first token (the
\* text begins with whitespace, or is empty) and the last (it ends with
\* whitespace, or is empty) may be empty.
LowerCasedSplitOnRuns(t, tokens) ==
    /\ Len(tokens) = WhitespaceRuns(t) + 1
    /\ join(tokens, "") = toLowerCase(Squeeze(t, 1))
    /\ \A i \in 1..Len(tokens) : \A k \in 1..Len(tokens[i]) :
           /\ CharAt(tokens[i], k) \notin WhiteSpace
           /\ CharAt(tokens[i], k) \notin DOMAIN lowerCaseOf
    /\ \A i \in 1..Len(tokens) :
           tokens[i] = "" =>
               \/ i = 1 /\ (t = "" \/ CharAt(t, 1) \in WhiteSpace)
               \/ i = Len(tokens) /\ (t = "" \/ CharAt(t, Len(t)) \in WhiteSpace)

\* C10 as stated: the tokens are the lower-cased text split on runs of
\* whitespace, and the empty text has no token at all.
C10_EmptyTextNoToken ==
    pc = "returned" =>
        /\ LowerCasedSplitOnRuns(text, words)
        /\ text = "" => Len(words) = 0

\* C10 as amended: the tokens are the lower-cased text split on runs of
\* whitespace, and the empty text has exactly one token, the empty string,
\* which no count counts.
C10_EmptyTextOneEmptyToken ==
    pc = "returned" =>
        /\ LowerCasedSplitOnRuns(text, words)
        /\ text = "" =>
            /\ words = << "" >>
            /\ positiveCount + negativeCount + stressCount = 0

\* The empty text has been split into its one empty token.
C10_Witness ==
    /\ pc = "returned"
    /\ text = ""
    /\ Len(words) = 1
    /\ words[1] = ""

\* The sentence of the summary that names the mood and the stress level.
SummarySentence(a) ==
    "Based on your conversation, you seem to be feeling " \o a.overall_mood
    \o " with a " \o a.stress_level \o " stress level. "

\* The first n labels of a list, each but the first preceded by ", ".
RECURSIVE CommaSeparated(_, _)
CommaSeparated(list, n) ==
    IF n = 0 THEN ""
    ELSE IF n = 1 THEN list[1]
    ELSE CommaSeparated(list, n - 1) \o ", " \o list[n]

\* s holds the text sub somewhere.
ContainsText(s, sub) ==
    \E a \in 1..(Len(s) - Len(sub) + 1) : SubSeq(s, a, a + Len(sub) - 1) = sub

\* C11: the summary is one sentence naming the mood and the stress level,
\* followed by the clause that lists the emotions joined by ", " iff there is
\* an emotion; with no emotion the clause is absent, not present and empty.
C11_SummaryTemplate ==
    pc = "returned" =>
        LET a == returned[1]
        IN  /\ a.emotions # << >> =>
                a.summary = SummarySentence(a) \o "Main emotions detected: "
                            \o CommaSeparated(a.emotions, Len(a.emotions)) \o "."
            /\ a.emotions = << >> => a.summary = SummarySentence(a)
            /\ ContainsText(a.summary, "Main emotions detected") <=> a.emotions # << >>

\* A summary that lists two pairs of emotions, four labels joined by ", ".
C11_Witness ==
    /\ pc = "returned"
    /\ Len(returned[1].emotions) = 4
    /\ ContainsText(returned[1].summary, "contentment, sadness")

(***************************************************************************)
(* useChatSessions: addMessage and generateMoodReport over the store.      *)
(***************************************************************************)
MaxStoredMessages == 2

UserIds == { "u1", "u2" }
SessionIds == { "s1", "s2" }
UserContents == { "good", "bad stress" }
AiContents == { "Happy to help" }

\* The session each caller of generateMoodReport asks a report of.
SessionOf == [ r \in ReportIds |-> IF r = "r1" THEN "s1" ELSE "s2" ]

ChatMessageRow(sessionId, userId, messageType, content) ==
    [ session_id   |-> sessionId,
      user_id      |-> userId,
      message_type |-> messageType,
      content      |-> content ]

\* The chat_messages table before the hook is used: a row of another user, in
\* a session of the same id.
InitialChatMessages ==
    { << ChatMessageRow("s1", "u2", "user", "bad stress") >> }

\* The rows of a sequence taken in the order f, a permutation of their indices.
Reordered(rows, f) == [ i \in 1..Len(rows) |-> rows[f[i]] ]

IndexPermutations(n) ==
    { f \in [ 1..n -> 1..n ] : \A i \in 1..n : \A j \in 1..n : i # j => f[i] # f[j] }

\* .from('chat_messages').eq('session_id', sessionId).eq('user_id', user.id):
\* the rows the filters keep, here in the order of their created_at.
matchingRows(table, sessionId, userId) ==
    SelectSeq(table, LAMBDA m : m.session_id = sessionId /\ m.user_id = userId)

\* messagesData.filter(m => m.message_type === 'user')
userMessagesOf(messagesData) ==
    SelectSeq(messagesData, LAMBDA m : m.message_type = "user")

\* userMessages.map(m => m.content).join(' ')
conversationTextOf(messagesData) ==
    LET userMessages == userMessagesOf(messagesData)
    IN  join([ i \in 1..Len(userMessages) |-> userMessages[i].content ], " ")

\* Mutant: the joined text is stored beside the analysis.
analyticsRecord_WithText(rep) ==
    [ user_id           |-> user,
      session_id        |-> rep.sessionId,
      analysis_type     |-> "mood_report",
      analysis_data     |-> rep.analysis[1],
      conversation_text |-> rep.conversationText ]

\* The record generateMoodReport inserts into mood_analytics.
analyticsRecord(rep) ==
    [ user_id       |-> user,
      session_id    |-> rep.sessionId,
      analysis_type |-> "mood_report",
      analysis_data |-> rep.analysis[1] ]

\* The number of rows of the signed-in user.
OwnRows(table) == Len(SelectSeq(table, LAMBDA m : m.user_id = user))

InitReport ==
    /\ text = ""
    /\ typed = 0
    /\ pc = "compose"
    /\ words = << >>
    /\ positiveCount = 0
    /\ negativeCount = 0
    /\ stressCount = 0
    /\ returned = << >>
    /\ user \in { "none", "u1" }
    /\ chat_messages \in InitialChatMessages
    /\ mood_analytics = << >>
    /\ encrypted_data = << >>
    /\ sessions = << >>
    /\ currentSession = << >>
    /\ messages = << >>
    /\ loading = TRUE
    /\ reports = [ r \in ReportIds |-> IdleReport ]
    /\ analyses = { }
    /\ toast = ""
    /\ consoleError = ""
    /\ GlueAtRest

\* addMessage(sessionId, messageType, content), from the call to its return.
\* The insert fails, or it stores the row; then the row is appended to messages
\* and, for a user message, storeEncryptedData is awaited, which stores the
\* content or throws.
AddMessage(sessionId, messageType, content) ==
    /\ user # "none"
    /\ OwnRows(chat_messages) < MaxStoredMessages
    /\ \/ /\ consoleError' = "Error adding message:"
          /\ toast' = "Failed to save message"
          /\ UNCHANGED <<chat_messages, messages, encrypted_data>>
       \/ /\ chat_messages' =
                 Append(chat_messages, ChatMessageRow(sessionId, user, messageType, content))
          /\ messages' =
                 Append(messages, ChatMessageRow(sessionId, user, messageType, content))
          /\ \/ /\ encrypted_data' =
                       IF messageType = "user"
                       THEN Append(encrypted_data,
                                   [ data_type |-> "chat_message", data |-> content ])
                       ELSE encrypted_data
                /\ UNCHANGED noticeVars
             \/ /\ messageType = "user"
                /\ consoleError' = "Error adding message:"
                /\ toast' = "Failed to save message"
                /\ UNCHANGED encrypted_data
    /\ UNCHANGED <<glueVars, analyzeVars, user, mood_analytics, sessions, currentSession, loading, reportVars>>

\* generateMoodReport(sessionId) up to its first await: null without a user,
\* else the select is sent.
GenerateMoodReportCall(r, sessionId) ==
    /\ reports[r].pc = "idle"
    /\ reports' =
           [ reports EXCEPT ![r] =
               IF user = "none"
               THEN [ @ EXCEPT !.pc = "done", !.sessionId = sessionId ]
               ELSE [ @ EXCEPT !.pc = "select", !.sessionId = sessionId ] ]
    /\ UNCHANGED <<glueVars, analyzeVars, storeVars, hookVars, analyses, noticeVars>>

\* The select returns: an error, which is thrown and caught, or the rows of the
\* session and the user.  The query has no order clause, so the rows come in
\* any order.  userMessages and conversationText are built from them.
GenerateMoodReportSelected(r) ==
    /\ reports[r].pc = "select"
    /\ \/ /\ reports' = [ reports EXCEPT ![r] =
                            [ @ EXCEPT !.pc = "done", !.failed = "select" ] ]
          /\ consoleError' = "Error generating mood report:"
          /\ toast' = "Failed to generate mood report"
       \/ /\ LET rows == matchingRows(chat_messages, reports[r].sessionId, user)
             IN  \E f \in IndexPermutations(Len(rows)) :
                     reports' = [ reports EXCEPT ![r] =
                                    [ @ EXCEPT !.pc = "classify",
                                               !.chronological = rows,
                                               !.messagesData = Reordered(rows, f),
                                               !.conversationText =
                                                   conversationTextOf(Reordered(rows, f)) ] ]
          /\ UNCHANGED noticeVars
    /\ UNCHANGED <<glueVars, analyzeVars, storeVars, hookVars, analyses>>

\* Mutant: the classifier works on a buffer that the calls share, so that it
\* sees the text another call has just built.
GenerateMoodReportClassify_SharedBuffer(r) ==
    /\ reports[r].pc = "classify"
    /\ LET others == { q \in ReportIds : q # r /\ reports[q].pc = "classify" }
           input  == IF others = { }
                     THEN reports[r].conversationText
                     ELSE reports[CHOOSE q \in others : TRUE].conversationText
       IN  /\ reports' = [ reports EXCEPT ![r] =
                             [ @ EXCEPT !.pc = "insert",
                                        !.analysis = << analyzeMoodFromText(input) >> ] ]
           /\ analyses' = analyses \cup
                  { [ input |-> input, output |-> analyzeMoodFromText(input) ] }
    /\ UNCHANGED <<glueVars, analyzeVars, storeVars, hookVars, noticeVars>>

\* Mutant: the call also leaves its text in the hook state and in the store.
GenerateMoodReportClassify_Persisting(r) ==
    /\ reports[r].pc = "classify"
    /\ reports' = [ reports EXCEPT ![r] =
                      [ @ EXCEPT !.pc = "insert",
                                 !.analysis =
                                     << analyzeMoodFromText(reports[r].conversationText) >> ] ]
    /\ analyses' = analyses \cup
           { [ input  |-> reports[r].conversationText,
               output |-> analyzeMoodFromText(reports[r].conversationText) ] }
    /\ loading' = FALSE
    /\ encrypted_data' =
           Append(encrypted_data,
                  [ data_type |-> "chat_message", data |-> reports[r].conversationText ])
    /\ UNCHANGED <<glueVars, analyzeVars, user, chat_messages, mood_analytics>>
    /\ UNCHANGED <<sessions, currentSession, messages, noticeVars>>

\* analyzeMoodFromText(conversationText): the call and its return, the step of
\* generateMoodReport between the select's return and the sending of the insert.
GenerateMoodReportClassify(r) ==
    /\ reports[r].pc = "classify"
    /\ reports' = [ reports EXCEPT ![r] =
                      [ @ EXCEPT !.pc = "insert",
                                 !.analysis =
                                     << analyzeMoodFromText(reports[r].conversationText) >> ] ]
    /\ analyses' = analyses \cup
           { [ input  |-> reports[r].conversationText,
               output |-> analyzeMoodFromText(reports[r].conversationText) ] }
    /\ UNCHANGED <<glueVars, analyzeVars, storeVars, hookVars, noticeVars>>

\* Mutant: the insert's error is not looked at.
GenerateMoodReportInserted_ErrorIgnored(r) ==
    /\ reports[r].pc = "insert"
    /\ \/ /\ reports' = [ reports EXCEPT ![r] =
                            [ @ EXCEPT !.pc = "done", !.failed = "insert",
                                       !.result = reports[r].analysis ] ]
          /\ toast' = "Mood report generated!"
          /\ UNCHANGED <<mood_analytics, consoleError>>
       \/ /\ mood_analytics' = Append(mood_analytics, analyticsRecord(reports[r]))
          /\ reports' = [ reports EXCEPT ![r] =
                            [ @ EXCEPT !.pc = "done", !.result = reports[r].analysis ] ]
          /\ toast' = "Mood report generated!"
          /\ UNCHANGED consoleError
    /\ UNCHANGED <<glueVars, analyzeVars, user, chat_messages, encrypted_data, hookVars, analyses>>

\* The insert into mood_analytics returns: an error, which is thrown and
\* caught (null is returned), or the record is stored and the analysis returned.
GenerateMoodReportInserted(r) ==
    /\ reports[r].pc = "insert"
    /\ \/ /\ reports' = [ reports EXCEPT ![r] =
                            [ @ EXCEPT !.pc = "done", !.failed = "insert" ] ]
          /\ consoleError' = "Error generating mood report:"
          /\ toast' = "Failed to generate mood report"
          /\ UNCHANGED mood_analytics
       \/ /\ mood_analytics' = Append(mood_analytics, analyticsRecord(reports[r]))
          /\ reports' = [ reports EXCEPT ![r] =
                            [ @ EXCEPT !.pc = "done", !.result = reports[r].analysis ] ]
          /\ toast' = "Mood report generated!"
          /\ UNCHANGED consoleError
    /\ UNCHANGED <<glueVars, analyzeVars, user, chat_messages, encrypted_data, hookVars, analyses>>

NextReport ==
    \/ \E sessionId \in SessionIds :
           \/ \E content \in UserContents : AddMessage(sessionId, "user", content)
           \/ \E content \in AiContents : AddMessage(sessionId, "ai", content)
    \/ \E r \in ReportIds : GenerateMoodReportCall(r, SessionOf[r])
    \/ \E r \in ReportIds : GenerateMoodReportSelected(r)
    \/ \E r \in ReportIds : GenerateMoodReportClassify(r)
    \/ \E r \in ReportIds : GenerateMoodReportInserted(r)

SpecReport == InitReport /\ [][NextReport]_vars

(***************************************************************************)
(* Properties of generateMoodReport.                                       *)
(***************************************************************************)
\* The calls whose conversationText has been built.
TextBuilt(r) == reports[r].pc \in { "classify", "insert" } \/ reports[r].analysis # << >>

\* The calls whose classification has returned.
Classified(r) == reports[r].analysis # << >>

C13_ClassifyChangesNothingElse ==
    [][ \A r \in ReportIds :
            (reports[r].pc = "classify" /\ reports'[r].pc = "insert") =>
                /\ UNCHANGED <<sessions, currentSession, messages, loading>>
                /\ UNCHANGED <<user, chat_messages, mood_analytics, encrypted_data>>
                /\ UNCHANGED <<toast, consoleError>>
                /\ \A q \in ReportIds \ { r } : reports'[q] = reports[q]
                /\ reports'[r] = [ reports[r] EXCEPT !.pc = "insert",
                                                     !.analysis = reports'[r].analysis ] ]_vars

\* A classification has returned while the hook showed messages and the store
\* held rows.
C13_Witness ==
    /\ \E r \in ReportIds : reports[r].pc = "insert"
    /\ Len(messages) = 2
    /\ Len(chat_messages) = 3
    /\ Len(encrypted_data) = 1

\* C14: whatever the interleaving of the calls, the analysis of each is the
\* value of the classifier on its own conversation text.
C14_EachClassifiesItsOwnText ==
    \A r \in ReportIds :
        Classified(r) =>
            reports[r].analysis = << analyzeMoodFromText(reports[r].conversationText) >>

\* Two calls with different texts, both between the select and the insert.
C14_Witness ==
    /\ reports["r1"].pc = "insert"
    /\ reports["r2"].pc = "insert"
    /\ reports["r1"].conversationText # reports["r2"].conversationText
    /\ reports["r1"].analysis # reports["r2"].analysis

\* The contents of the rows, in their order.
ContentsOf(rows) == [ i \in 1..Len(rows) |-> rows[i].content ]

\* C15: the text passed to the classifier is the contents of all and only the
\* user-authored messages of the requested session and the current user, in
\* chronological order, joined by single spaces.
C15_ChronologicalUserMessages ==
    \A r \in ReportIds :
        TextBuilt(r) =>
            /\ \A i \in 1..Len(reports[r].chronological) :
                   /\ reports[r].chronological[i].session_id = reports[r].sessionId
                   /\ reports[r].chronological[i].user_id = user
            /\ reports[r].conversationText =
                   join(ContentsOf(SelectSeq(reports[r].chronological,
                                             LAMBDA m : m.message_type = "user")), " ")

MoodAnalyticsFields == { "user_id", "session_id", "analysis_type", "analysis_data" }

\* C16: every record generateMoodReport inserts holds the user id, the session
\* id, the analysis type and the Mood Analysis and nothing else, so not the
\* joined text; generateMoodReport writes to no other table; and the text passed
\* to the classifier is the text as built.
C16_TextNotPersisted ==
    /\ \A i \in 1..Len(mood_analytics) :
           /\ DOMAIN mood_analytics[i] = MoodAnalyticsFields
           /\ mood_analytics[i].user_id = user
           /\ mood_analytics[i].session_id \in SessionIds
           /\ mood_analytics[i].analysis_type = "mood_report"
           /\ IsMoodAnalysis(mood_analytics[i].analysis_data)
    /\ Len(chat_messages) = 1 + Len(messages)
    /\ \A i \in 1..Len(encrypted_data) : encrypted_data[i].data \in UserContents
    /\ \A r \in ReportIds :
           /\ TextBuilt(r) =>
                  reports[r].conversationText = conversationTextOf(reports[r].messagesData)
           /\ Classified(r) =>
                  \E a \in analyses : a.input = reports[r].conversationText

\* A record was stored for a text joined from two user messages.
C16_Witness ==
    /\ Len(mood_analytics) = 1
    /\ \E r \in ReportIds :
           /\ reports[r].pc = "done"
           /\ reports[r].result # << >>
           /\ Len(reports[r].messagesData) = 2
           /\ ContainsText(reports[r].conversationText, " ")

\* C17: the analysis of a call stays the classifier's value for its text; a
\* call returns it only after it was stored, the stored and the returned value
\* being that analysis; a call whose select or insert failed returns null.
C17_ReturnedOnlyIfStored ==
    /\ \A r \in ReportIds :
           reports[r].pc = "done" =>
               /\ reports[r].failed # "" => reports[r].result = << >>
               /\ reports[r].result # << >> =>
                      /\ reports[r].failed = ""
                      /\ reports[r].result = reports[r].analysis
                      /\ \E i \in 1..Len(mood_analytics) :
                             /\ mood_analytics[i].session_id = reports[r].sessionId
                             /\ mood_analytics[i].analysis_data = reports[r].result[1]
    /\ \A r \in ReportIds : reports[r].pc # "done" => reports[r].result = << >>
    /\ \A i \in 1..Len(mood_analytics) :
           \E r \in ReportIds :
               /\ reports[r].pc = "done"
               /\ reports[r].sessionId = mood_analytics[i].session_id
               /\ << mood_analytics[i].analysis_data >> = reports[r].result

\* One call has returned its stored analysis, the other null after its insert
\* failed.
C17_Witness ==
    /\ reports["r1"].pc = "done"
    /\ reports["r1"].result # << >>
    /\ reports["r2"].pc = "done"
    /\ reports["r2"].failed = "insert"
    /\ reports["r2"].result = << >>
    /\ Len(mood_analytics) = 1

(***************************************************************************)
(* VoiceAI: processChatInput, the session list and the AI collaborator.    *)
(***************************************************************************)
MaxChatInputs == 1
StoredBefore == 11

\* .slice(-10): the number of messages given to the AI collaborator as context.
HistoryLimit == 10

NewSessionIds == { "s3" }
ChatInputs == { "hello" }
AiFallback == "I'm having trouble connecting right now. Please try again in a moment."

\* The store before the component mounts: session s1 with a conversation
\* longer than the context, and session s2 with one message.
InitialChatHistory ==
    [ i \in 1..StoredBefore |->
        ChatMessageRow("s1", "u1", IF i % 2 = 1 THEN "user" ELSE "ai", "m" \o ToString(i)) ]
    \o << ChatMessageRow("s2", "u1", "user", "other") >>

\* messages.slice(-count)
sliceLast(list, count) ==
    IF Len(list) <= count THEN list ELSE SubSeq(list, Len(list) - count + 1, Len(list))

\* `${m.message_type === 'user' ? 'User' : 'AI'}: ${m.content}`
historyLine(m) == (IF m.message_type = "user" THEN "User" ELSE "AI") \o ": " \o m.content

\* conversationHistory of processChatInput, built from the messages of its render.
conversationHistoryOf(closureMessages) ==
    LET context == sliceLast(closureMessages, HistoryLimit)
    IN  join([ i \in 1..Len(context) |-> historyLine(context[i]) ], "\n")

\* fullPrompt of getGeminiResponse, after the system prompt of the personality.
fullPromptOf(input, conversationHistory) ==
    (IF conversationHistory # ""
     THEN "Previous conversation context:\n" \o conversationHistory \o "\n\n"
     ELSE "")
    \o "User: " \o input \o "\n\nAssistant:"

\* The titles of the sessions s1 and s2 of the store.
InitialTitles == ("s1" :> "Work") @@ ("s2" :> "Home")

\* title || `Chat ${new Date().toLocaleDateString()}`, on some day
DefaultTitle == "Chat 11/5/2026"

InitChat ==
    /\ text = ""
    /\ typed = 0
    /\ pc = "compose"
    /\ words = << >>
    /\ positiveCount = 0
    /\ negativeCount = 0
    /\ stressCount = 0
    /\ returned = << >>
    /\ user \in { "none", "u1" }
    /\ chat_messages = InitialChatHistory
    /\ mood_analytics = << >>
    /\ encrypted_data = << >>
    /\ sessions = << >>
    /\ currentSession = << >>
    /\ messages = << >>
    /\ loading = TRUE
    /\ reports = [ r \in ReportIds |-> IdleReport ]
    /\ analyses = { }
    /\ toast = ""
    /\ consoleError = ""
    /\ chat_sessions = << "s1", "s2" >>
    /\ isProcessing = FALSE
    /\ chat = [ c \in ChatIds |-> IdleChat ]
    /\ loadRequests = { }
    /\ aiRequest = << >>
    /\ textInput = ""
    /\ isListening = FALSE
    /\ recognition = "off"
    /\ titles = [ store |-> InitialTitles, list |-> << >>, current |-> << >> ]
    /\ sessionRequests = { }
    /\ SettingsAtRest
    /\ DashboardAtRest
    /\ RemindersAtRest

\* loadSessions, run by the effect once the user is known.
LoadSessions ==
    /\ user # "none"
    /\ loading
    /\ \/ /\ sessions' = chat_sessions
          /\ titles' = [ titles EXCEPT !.list = titles.store ]
          /\ UNCHANGED noticeVars
       \/ /\ consoleError' = "Error loading chat sessions:"
          /\ toast' = "Failed to load chat sessions"
          /\ UNCHANGED <<sessions, titles>>
    /\ loading' = FALSE
    /\ UNCHANGED <<analyzeVars, storeVars, currentSession, messages, reportVars>>
    /\ UNCHANGED <<chat_sessions, isProcessing, chat, loadRequests, aiRequest>>
    /\ UNCHANGED <<textInput, isListening, recognition, sessionRequests, notChat>>

\* handleSessionSelect(session) up to its await: the session becomes the
\* current one and loadMessages sends its select.
HandleSessionSelect(sessionId) ==
    /\ sessionId \in Range(sessions)
    /\ currentSession' = << sessionId >>
    /\ titles' = [ titles EXCEPT !.current = << titles.list[sessionId] >> ]
    /\ loadRequests' = loadRequests \cup { sessionId }
    /\ UNCHANGED <<analyzeVars, storeVars, sessions, messages, loading, reportVars, noticeVars>>
    /\ UNCHANGED <<chat_sessions, isProcessing, chat, aiRequest, textInput, isListening, recognition>>
    /\ UNCHANGED <<sessionRequests, notChat>>

\* The select of loadMessages returns: the rows of the session in the order
\* of created_at, or an error, which is logged and shown.
LoadMessagesReturned(sessionId) ==
    /\ sessionId \in loadRequests
    /\ loadRequests' = loadRequests \ { sessionId }
    /\ \/ /\ messages' = matchingRows(chat_messages, sessionId, user)
          /\ UNCHANGED noticeVars
       \/ /\ consoleError' = "Error loading messages:"
          /\ toast' = "Failed to load messages"
          /\ UNCHANGED messages
    /\ UNCHANGED <<analyzeVars, storeVars, sessions, currentSession, loading, reportVars>>
    /\ UNCHANGED <<chat_sessions, isProcessing, chat, aiRequest, textInput, isListening, recognition>>
    /\ UNCHANGED <<sessionVars, notChat>>

\* createNewSession succeeds: the row is stored, the session is put first,
\* it becomes the current one and the messages are emptied.
sessionCreated(sessionId) ==
    /\ chat_sessions' = << sessionId >> \o chat_sessions
    /\ sessions' = << sessionId >> \o sessions
    /\ currentSession' = << sessionId >>
    /\ titles' = [ store   |-> (sessionId :> DefaultTitle) @@ titles.store,
                   list    |-> (sessionId :> DefaultTitle) @@ titles.list,
                   current |-> << DefaultTitle >> ]
    /\ messages' = << >>
    /\ toast' = "New chat session created!"
    /\ UNCHANGED consoleError

\* createNewSession fails: the error is logged and shown.
sessionNotCreated ==
    /\ consoleError' = "Error creating session:"
    /\ toast' = "Failed to create new session"
    /\ UNCHANGED <<chat_sessions, sessions, currentSession, messages, titles>>

\* handleNewChat: createNewSession from its call to its return.
HandleNewChat ==
    /\ user # "none"
    /\ \/ \E sessionId \in NewSessionIds \ Range(chat_sessions) : sessionCreated(sessionId)
       \/ sessionNotCreated
    /\ UNCHANGED <<analyzeVars, storeVars, loading, reportVars>>
    /\ UNCHANGED <<isProcessing, chat, loadRequests, aiRequest, textInput, isListening, recognition>>
    /\ UNCHANGED <<sessionRequests, notChat>>

RECURSIVE trimStart(_)
trimStart(s) ==
    IF s # "" /\ CharAt(s, 1) \in WhiteSpace THEN trimStart(SubSeq(s, 2, Len(s))) ELSE s

RECURSIVE trimEnd(_)
trimEnd(s) ==
    IF s # "" /\ CharAt(s, Len(s)) \in WhiteSpace THEN trimEnd(SubSeq(s, 1, Len(s) - 1)) ELSE s

\* String.prototype.trim
trim(s) == trimEnd(trimStart(s))

\* The call of processChatInput that is made next.
freeChat == IF chat["c1"].pc = "idle" THEN "c1" ELSE "c2"

\* onChange of the text input, which is disabled while isProcessing or
\* isListening.
TypeText(input) ==
    /\ ~(isProcessing \/ isListening)
    /\ textInput # input
    /\ textInput' = input
    /\ UNCHANGED <<analyzeVars, storeVars, hookVars, reportVars, noticeVars>>
    /\ UNCHANGED <<chat_sessions, isProcessing, chat, loadRequests, aiRequest, isListening, recognition>>
    /\ UNCHANGED <<sessionVars, notChat>>

\* processChatInput(input) up to its first await.  It returns at once for a
\* blank input or without a user.  currentSession and messages are those of
\* the render the function belongs to.  Without a session createNewSession is
\* awaited; with one, isProcessing is set and addMessage is awaited.
processChatInput(c, input) ==
    IF trim(input) = "" \/ user = "none"
    THEN UNCHANGED <<chat, isProcessing>>
    ELSE /\ chat' = [ chat EXCEPT ![c] =
                        [ pc           |-> IF currentSession = << >> THEN "create" ELSE "addUser",
                          input        |-> input,
                          sessionToUse |-> currentSession,
                          messages     |-> messages,
                          aiResponse   |-> "",
                          userInserted |-> FALSE ] ]
         /\ isProcessing' = (isProcessing \/ currentSession # << >>)

\* handleTextSubmit: the form is submitted, which the disabled input and
\* button prevent while isProcessing or isListening.
HandleTextSubmit(c) ==
    /\ ~(isProcessing \/ isListening)
    /\ c = freeChat
    /\ chat[c].pc = "idle"
    /\ Len(chat_messages) < Len(InitialChatHistory) + MaxChatInputs
    /\ IF trim(textInput) # ""
       THEN processChatInput(c, textInput)
       ELSE UNCHANGED <<chat, isProcessing>>
    /\ UNCHANGED <<analyzeVars, storeVars, hookVars, reportVars, noticeVars>>
    /\ UNCHANGED <<chat_sessions, loadRequests, aiRequest, textInput, isListening, recognition>>
    /\ UNCHANGED <<sessionVars, notChat>>

\* startVoiceRecognition with onstart.  The voice button is disabled while
\* isProcessing.
StartVoiceRecognition ==
    /\ ~isProcessing
    /\ recognition = "off"
    /\ recognition' = "listening"
    /\ isListening' = TRUE
    /\ toast' = "Listening... Speak now!"
    /\ UNCHANGED <<analyzeVars, storeVars, hookVars, reportVars, consoleError>>
    /\ UNCHANGED <<chat_sessions, isProcessing, chat, loadRequests, aiRequest, textInput>>
    /\ UNCHANGED <<sessionVars, notChat>>

\* recognition.onresult: the transcript is put in the text input and given to
\* processChatInput.
RecognitionResult(c, transcript) ==
    /\ recognition = "listening"
    /\ c = freeChat
    /\ chat[c].pc = "idle"
    /\ Len(chat_messages) < Len(InitialChatHistory) + MaxChatInputs
    /\ recognition' = "heard"
    /\ textInput' = transcript
    /\ processChatInput(c, transcript)
    /\ UNCHANGED <<analyzeVars, storeVars, hookVars, reportVars, noticeVars>>
    /\ UNCHANGED <<chat_sessions, loadRequests, aiRequest, isListening>>
    /\ UNCHANGED <<sessionVars, notChat>>

\* recognition.onerror
RecognitionError ==
    /\ recognition = "listening"
    /\ recognition' = "off"
    /\ isListening' = FALSE
    /\ consoleError' = "Speech recognition error:"
    /\ toast' = "Speech recognition failed"
    /\ UNCHANGED <<analyzeVars, storeVars, hookVars, reportVars>>
    /\ UNCHANGED <<chat_sessions, isProcessing, chat, loadRequests, aiRequest, textInput>>
    /\ UNCHANGED <<sessionVars, notChat>>

\* recognition.onend
RecognitionEnd ==
    /\ recognition \in { "listening", "heard" }
    /\ recognition' = "off"
    /\ isListening' = FALSE
    /\ UNCHANGED <<analyzeVars, storeVars, hookVars, reportVars, noticeVars>>
    /\ UNCHANGED <<chat_sessions, isProcessing, chat, loadRequests, aiRequest, textInput>>
    /\ UNCHANGED <<sessionVars, notChat>>

\* createNewSession returns to processChatInput: with the new session, and
\* isProcessing is set and addMessage awaited, or with null, and
\* processChatInput returns.
ChatSessionCreated(c, newIds) ==
    /\ chat[c].pc = "create"
    /\ \/ \E sessionId \in newIds \ Range(chat_sessions) :
              /\ sessionCreated(sessionId)
              /\ chat' = [ chat EXCEPT ![c].pc = "addUser", ![c].sessionToUse = << sessionId >> ]
              /\ isProcessing' = TRUE
       \/ /\ sessionNotCreated
          /\ chat' = [ chat EXCEPT ![c] = IdleChat ]
          /\ UNCHANGED isProcessing
    /\ UNCHANGED <<analyzeVars, storeVars, loading, reportVars, loadRequests, aiRequest>>
    /\ UNCHANGED <<textInput, isListening, recognition>>
    /\ UNCHANGED <<sessionRequests, notChat>>

\* addMessage(sessionToUse.id, 'user', input) returns: null after a failed
\* insert, null after storing the row, appending it to messages and a throw
\* of storeEncryptedData, or the row with its content stored by
\* storeEncryptedData.  Whatever it returns, conversationHistory is built from
\* the messages of the render and getGeminiResponse sends its request.
ChatUserMessageAdded(c) ==
    /\ chat[c].pc = "addUser"
    /\ \/ /\ consoleError' = "Error adding message:"
          /\ toast' = "Failed to save message"
          /\ UNCHANGED <<chat_messages, messages, encrypted_data>>
          /\ chat' = [ chat EXCEPT ![c].pc = "ai" ]
       \/ /\ chat_messages' =
                 Append(chat_messages,
                        ChatMessageRow(chat[c].sessionToUse[1], user, "user", chat[c].input))
          /\ messages' =
                 Append(messages,
                        ChatMessageRow(chat[c].sessionToUse[1], user, "user", chat[c].input))
          /\ chat' = [ chat EXCEPT ![c].pc = "ai", ![c].userInserted = TRUE ]
          /\ \/ /\ encrypted_data' =
                       Append(encrypted_data,
                              [ data_type |-> "chat_message", data |-> chat[c].input ])
                /\ UNCHANGED noticeVars
             \/ /\ consoleError' = "Error adding message:"
                /\ toast' = "Failed to save message"
                /\ UNCHANGED encrypted_data
    /\ aiRequest' =
           << [ sessionId           |-> chat[c].sessionToUse[1],
                context             |-> sliceLast(chat[c].messages, HistoryLimit),
                conversationHistory |-> conversationHistoryOf(chat[c].messages),
                fullPrompt          |->
                    fullPromptOf(chat[c].input, conversationHistoryOf(chat[c].messages)) ] >>
    /\ UNCHANGED <<analyzeVars, user, mood_analytics, sessions, currentSession, loading>>
    /\ UNCHANGED <<reportVars, chat_sessions, isProcessing, loadRequests>>
    /\ UNCHANGED <<textInput, isListening, recognition>>
    /\ UNCHANGED <<sessionVars, notChat>>

\* getGeminiResponse returns: the text of the collaborator, or its fallback
\* text after logging the error; addMessage is awaited for it.
ChatAiResponded(c) ==
    /\ chat[c].pc = "ai"
    /\ \/ /\ \E aiResponse \in AiContents :
                 chat' = [ chat EXCEPT ![c].pc = "addAi", ![c].aiResponse = aiResponse ]
          /\ UNCHANGED consoleError
       \/ /\ chat' = [ chat EXCEPT ![c].pc = "addAi", ![c].aiResponse = AiFallback ]
          /\ consoleError' = "Gemini API error:"
    /\ UNCHANGED <<analyzeVars, storeVars, hookVars, reportVars, toast>>
    /\ UNCHANGED <<chat_sessions, isProcessing, loadRequests, aiRequest>>
    /\ UNCHANGED <<textInput, isListening, recognition>>
    /\ UNCHANGED <<sessionVars, notChat>>

\* Mutant: the finally block does not reset isProcessing.
ChatAiMessageAdded_ProcessingKept(c) ==
    /\ chat[c].pc = "addAi"
    /\ \/ /\ consoleError' = "Error adding message:"
          /\ UNCHANGED <<chat_messages, messages>>
       \/ /\ chat_messages' =
                 Append(chat_messages,
                        ChatMessageRow(chat[c].sessionToUse[1], user, "ai", chat[c].aiResponse))
          /\ messages' =
                 Append(messages,
                        ChatMessageRow(chat[c].sessionToUse[1], user, "ai", chat[c].aiResponse))
          /\ UNCHANGED consoleError
    /\ toast' = "AI response generated!"
    /\ textInput' = ""
    /\ chat' = [ chat EXCEPT ![c] = IdleChat ]
    /\ UNCHANGED <<analyzeVars, user, mood_analytics, encrypted_data>>
    /\ UNCHANGED <<sessions, currentSession, loading, reportVars>>
    /\ UNCHANGED <<chat_sessions, isProcessing, loadRequests, aiRequest, isListening, recognition>>
    /\ UNCHANGED <<sessionVars, notChat>>

\* addMessage(sessionToUse.id, 'ai', aiResponse) returns, having stored the
\* message or not; the success notice is shown, and the finally block resets
\* isProcessing and empties the text input.
ChatAiMessageAdded(c) ==
    /\ chat[c].pc = "addAi"
    /\ \/ /\ consoleError' = "Error adding message:"
          /\ UNCHANGED <<chat_messages, messages>>
       \/ /\ chat_messages' =
                 Append(chat_messages,
                        ChatMessageRow(chat[c].sessionToUse[1], user, "ai", chat[c].aiResponse))
          /\ messages' =
                 Append(messages,
                        ChatMessageRow(chat[c].sessionToUse[1], user, "ai", chat[c].aiResponse))
          /\ UNCHANGED consoleError
    /\ toast' = "AI response generated!"
    /\ isProcessing' = FALSE
    /\ textInput' = ""
    /\ chat' = [ chat EXCEPT ![c] = IdleChat ]
    /\ UNCHANGED <<analyzeVars, user, mood_analytics, encrypted_data>>
    /\ UNCHANGED <<sessions, currentSession, loading, reportVars>>
    /\ UNCHANGED <<chat_sessions, loadRequests, aiRequest, isListening, recognition>>
    /\ UNCHANGED <<sessionVars, notChat>>

\* The chat with one call of processChatInput in flight at a time.
NextChat ==
    \/ LoadSessions
    \/ \E sessionId \in SessionIds \cup NewSessionIds : HandleSessionSelect(sessionId)
    \/ \E sessionId \in SessionIds \cup NewSessionIds : LoadMessagesReturned(sessionId)
    \/ HandleNewChat
    \/ \E input \in ChatInputs : TypeText(input)
    \/ HandleTextSubmit("c1")
    \/ ChatSessionCreated("c1", NewSessionIds)
    \/ ChatUserMessageAdded("c1")
    \/ ChatAiResponded("c1")
    \/ ChatAiMessageAdded("c1")

SpecChat == InitChat /\ [][NextChat]_vars

\* C18: the prompt of every AI request of processChatInput holds as context
\* at most the last 10 earlier messages, each labelled User or AI, and every
\* one of them is a message of the session the input was sent in.
C18_ContextOfCurrentSessionOnly ==
    aiRequest # << >> =>
        /\ Len(aiRequest[1].context) <= HistoryLimit
        /\ aiRequest[1].conversationHistory =
               join([ i \in 1..Len(aiRequest[1].context) |->
                        (IF aiRequest[1].context[i].message_type = "user"
                         THEN "User: " ELSE "AI: ")
                        \o aiRequest[1].context[i].content ], "\n")
        /\ \A i \in 1..Len(aiRequest[1].context) :
               aiRequest[1].context[i].session_id = aiRequest[1].sessionId

(***************************************************************************)
(* useSettings: loadSettings, createDefaultSettings and updateSettings of  *)
(* several hook instances over one user_settings table.                    *)
(***************************************************************************)
\* A row of user_settings.
SettingsRow(userId, values) == [ user_id |-> userId, values |-> values ]

\* What updateSettings may be called with.
SettingsChanges == { [ theme |-> "dark" ], [ theme |-> "light" ] }

\* The table before the hooks mount: the user has no record, or one with
\* values of their own; another user has a record.
InitialUserSettings ==
    { << SettingsRow("u2", defaultSettings) >>,
      << SettingsRow("u2", defaultSettings),
         SettingsRow("u1", [ defaultSettings EXCEPT !.theme = "dark",
                                                      !.ai_personality = "friendly" ]) >> }

\* .eq('user_id', user.id)
rowsOfUser(table, userId) == SelectSeq(table, LAMBDA row : row.user_id = userId)

\* The table holds one settings record per user: it accepts an insert only
\* for a user without a record.
insertAccepted(table, row) == rowsOfUser(table, row.user_id) = << >>

\* upsert: the record of the user is replaced, or the row is added.
upsertUserSettings(table, row) ==
    IF rowsOfUser(table, row.user_id) = << >>
    THEN Append(table, row)
    ELSE [ i \in 1..Len(table) |-> IF table[i].user_id = row.user_id THEN row ELSE table[i] ]

InitSettings ==
    /\ text = ""
    /\ typed = 0
    /\ pc = "compose"
    /\ words = << >>
    /\ positiveCount = 0
    /\ negativeCount = 0
    /\ stressCount = 0
    /\ returned = << >>
    /\ user = "u1"
    /\ chat_messages = << >>
    /\ mood_analytics = << >>
    /\ encrypted_data = << >>
    /\ sessions = << >>
    /\ currentSession = << >>
    /\ messages = << >>
    /\ loading = TRUE
    /\ reports = [ r \in ReportIds |-> IdleReport ]
    /\ analyses = { }
    /\ toast = ""
    /\ consoleError = ""
    /\ ChatAtRest
    /\ DashboardAtRest
    /\ RemindersAtRest
    /\ user_settings \in InitialUserSettings
    /\ settingsHooks = [ h \in SettingsHookIds |-> NewSettingsHook ]

\* What no action of useSettings changes.
notSettings ==
    <<analyzeVars, storeVars, hookVars, reportVars, chatVars, dashboardVars, reminderVars>>

\* loadSettings up to its await: the select is sent.
LoadSettings(h) ==
    /\ user # "none"
    /\ settingsHooks[h].pc \in { "idle", "done" }
    /\ settingsHooks' =
           [ settingsHooks EXCEPT ![h] =
               [ @ EXCEPT !.pc = "select", !.found = << >>, !.applied = << >>,
                          !.inserted = << >>, !.failed = "" ] ]
    /\ UNCHANGED <<notSettings, noticeVars, user_settings>>

\* Mutant: the stored values are read but the defaults are kept.
LoadSettingsSelected_DefaultsKept(h) ==
    /\ settingsHooks[h].pc = "select"
    /\ \/ /\ settingsHooks' =
                 [ settingsHooks EXCEPT ![h] =
                     [ @ EXCEPT !.pc = "done", !.failed = "select", !.loading = FALSE ] ]
          /\ consoleError' = "Error loading settings:"
          /\ toast' = "Failed to load settings"
       \/ /\ LET rows == rowsOfUser(user_settings, user)
             IN  settingsHooks' =
                     [ settingsHooks EXCEPT ![h] =
                         IF Len(rows) = 1
                         THEN [ @ EXCEPT !.pc = "done", !.found = << rows[1].values >>,
                                         !.settings = defaultSettings,
                                         !.applied = << defaultSettings >>,
                                         !.loading = FALSE ]
                         ELSE [ @ EXCEPT !.pc = "insert" ] ]
          /\ UNCHANGED noticeVars
    /\ UNCHANGED <<notSettings, user_settings>>

\* The select of loadSettings returns.  An error other than PGRST116 is
\* thrown, logged and shown.  .single() gives the row if there is exactly
\* one, whose values are applied; else data is null (PGRST116) and
\* createDefaultSettings sends its insert.
LoadSettingsSelected(h) ==
    /\ settingsHooks[h].pc = "select"
    /\ \/ /\ settingsHooks' =
                 [ settingsHooks EXCEPT ![h] =
                     [ @ EXCEPT !.pc = "done", !.failed = "select", !.loading = FALSE ] ]
          /\ consoleError' = "Error loading settings:"
          /\ toast' = "Failed to load settings"
       \/ /\ LET rows == rowsOfUser(user_settings, user)
             IN  settingsHooks' =
                     [ settingsHooks EXCEPT ![h] =
                         IF Len(rows) = 1
                         THEN [ @ EXCEPT !.pc = "done", !.found = << rows[1].values >>,
                                         !.settings = rows[1].values,
                                         !.applied = << rows[1].values >>,
                                         !.loading = FALSE ]
                         ELSE [ @ EXCEPT !.pc = "insert" ] ]
          /\ UNCHANGED noticeVars
    /\ UNCHANGED <<notSettings, user_settings>>

\* The insert of createDefaultSettings returns: the row was stored, or the
\* store refused it, or the call failed; an error is logged and nothing is
\* shown.  loadSettings then resets loading.
CreateDefaultSettingsReturned(h) ==
    /\ settingsHooks[h].pc = "insert"
    /\ LET row == SettingsRow(user, defaultSettings)
       IN  \/ /\ insertAccepted(user_settings, row)
              /\ user_settings' = Append(user_settings, row)
              /\ settingsHooks' =
                     [ settingsHooks EXCEPT ![h] =
                         [ @ EXCEPT !.pc = "done", !.inserted = << row >>,
                                    !.loading = FALSE ] ]
              /\ UNCHANGED consoleError
           \/ /\ ~insertAccepted(user_settings, row)
              /\ settingsHooks' =
                     [ settingsHooks EXCEPT ![h] =
                         [ @ EXCEPT !.pc = "done", !.failed = "conflict",
                                    !.loading = FALSE ] ]
              /\ consoleError' = "Error creating default settings:"
              /\ UNCHANGED user_settings
           \/ /\ settingsHooks' =
                     [ settingsHooks EXCEPT ![h] =
                         [ @ EXCEPT !.pc = "done", !.failed = "insert",
                                    !.loading = FALSE ] ]
              /\ consoleError' = "Error creating default settings:"
              /\ UNCHANGED user_settings
    /\ UNCHANGED <<notSettings, toast>>

\* updateSettings(newSettings), from its call to its return.
UpdateSettings(h, newSettings) ==
    /\ user # "none"
    /\ LET updatedSettings == newSettings @@ settingsHooks[h].settings
       IN  \/ /\ user_settings' =
                     upsertUserSettings(user_settings, SettingsRow(user, updatedSettings))
              /\ settingsHooks' =
                     [ settingsHooks EXCEPT ![h] = [ @ EXCEPT !.settings = updatedSettings ] ]
              /\ toast' = "Settings saved successfully!"
              /\ UNCHANGED consoleError
           \/ /\ consoleError' = "Error updating settings:"
              /\ toast' = "Failed to save settings"
              /\ UNCHANGED <<user_settings, settingsHooks>>
    /\ UNCHANGED notSettings

NextSettings ==
    \/ \E h \in SettingsHookIds : LoadSettings(h)
    \/ \E h \in SettingsHookIds : LoadSettingsSelected(h)
    \/ \E h \in SettingsHookIds : CreateDefaultSettingsReturned(h)
    \/ \E h \in SettingsHookIds : \E newSettings \in SettingsChanges :
           UpdateSettings(h, newSettings)

SpecSettings == InitSettings /\ [][NextSettings]_vars

MaxNotifications == 2

ScheduleActions == { "schedule-mood-reminder", "schedule-daily-summary" }

\* scheduleMoodReminder and scheduleDailySummary: the type of the notification.
TypeOf ==
    [ a \in ScheduleActions |->
        IF a = "schedule-mood-reminder" THEN "mood_reminder" ELSE "daily_summary" ]

\* The time scheduled for: "1" is today at 20:00, "2" tomorrow at 9:00.
ScheduledFor ==
    [ a \in ScheduleActions |-> IF a = "schedule-mood-reminder" THEN 2 ELSE 1 ]

\* The success notice of handleQuickAction.
SuccessOf ==
    [ a \in ScheduleActions |->
        IF a = "schedule-mood-reminder"
        THEN "Mood reminder scheduled for tomorrow!"
        ELSE "Daily summary scheduled for tonight!" ]

\* The row scheduleNotification inserts.
NotificationRow(userId, action) ==
    [ user_id |-> userId, type |-> TypeOf[action], scheduled_for |-> ScheduledFor[action] ]

\* .eq('user_id', user.id).order('scheduled_for', { ascending: false })
ownNotifications(table, userId) ==
    SelectSeq(table, LAMBDA n : n.user_id = userId /\ n.scheduled_for = 2)
    \o SelectSeq(table, LAMBDA n : n.user_id = userId /\ n.scheduled_for = 1)

ErrorNotice(message) == [ kind |-> "error", message |-> message ]
SuccessNotice(message) == [ kind |-> "success", message |-> message ]

\* setStats of loadStats: each data is the rows, or null when its select failed.
statsOf(taskData, moodData, voiceData) ==
    [ totalTasks     |-> IF taskData = << >> THEN 0 ELSE Len(taskData[1]),
      completedTasks |->
          IF taskData = << >> THEN 0
          ELSE Len(SelectSeq(taskData[1], LAMBDA completed : completed)),
      todayMood      |->
          IF moodData = << >> \/ moodData[1] = << >> \/ moodData[1][1] = 0
          THEN << >>
          ELSE << moodData[1][1] >>,
      voiceSessions  |-> IF voiceData = << >> THEN 0 ELSE Len(voiceData[1]) ]

InitDashboard ==
    /\ text = ""
    /\ typed = 0
    /\ pc = "compose"
    /\ words = << >>
    /\ positiveCount = 0
    /\ negativeCount = 0
    /\ stressCount = 0
    /\ returned = << >>
    /\ user \in { "none", "u1" }
    /\ chat_messages = << >>
    /\ mood_analytics = << >>
    /\ encrypted_data = << >>
    /\ sessions = << >>
    /\ currentSession = << >>
    /\ messages = << >>
    /\ loading = TRUE
    /\ reports = [ r \in ReportIds |-> IdleReport ]
    /\ analyses = { }
    /\ toast = ""
    /\ consoleError = ""
    /\ ChatAtRest
    /\ SettingsAtRest
    /\ RemindersAtRest
    /\ notification_rows = << >>
    /\ notifications = << >>
    /\ tasks \in { << >>, << TRUE, FALSE >> }
    /\ mood_entries \in { << >>, << 4 >> }
    /\ voice_sessions \in { << >>, << "v1" >> }
    /\ stats = InitialStats
    /\ outcome = NoOutcome

\* What no action of the Dashboard changes.
notDashboard ==
    <<analyzeVars, storeVars, hookVars, reportVars, chatVars, settingsVars, reminderVars>>

\* loadNotifications, from its call to its return: the rows are set, or the
\* error is logged.
LoadNotifications ==
    /\ user # "none"
    /\ \/ /\ notifications' = ownNotifications(notification_rows, user)
          /\ outcome' = [ operation |-> "loadNotifications", failure |-> "",
                          logs |-> << >>, notices |-> << >> ]
          /\ UNCHANGED consoleError
       \/ /\ consoleError' = "Error loading notifications:"
          /\ outcome' = [ operation |-> "loadNotifications", failure |-> "select",
                          logs |-> << "Error loading notifications:" >>, notices |-> << >> ]
          /\ UNCHANGED notifications
    /\ UNCHANGED <<notDashboard, toast, notification_rows>>
    /\ UNCHANGED <<tasks, mood_entries, voice_sessions, stats>>

\* handleQuickAction('schedule-mood-reminder' | 'schedule-daily-summary'):
\* scheduleNotification returns at once without a user, stores the row and
\* adds it to notifications, or logs and shows the error; handleQuickAction
\* then shows its success notice.
HandleQuickAction(action) ==
    /\ Len(notification_rows) < MaxNotifications
    /\ \/ /\ user = "none"
          /\ outcome' = [ operation |-> action, failure |-> "", logs |-> << >>,
                          notices |-> << SuccessNotice(SuccessOf[action]) >> ]
          /\ UNCHANGED <<notification_rows, notifications, consoleError>>
       \/ /\ user # "none"
          /\ notification_rows' = Append(notification_rows, NotificationRow(user, action))
          /\ notifications' = Append(notifications, NotificationRow(user, action))
          /\ outcome' = [ operation |-> action, failure |-> "", logs |-> << >>,
                          notices |-> << SuccessNotice(SuccessOf[action]) >> ]
          /\ UNCHANGED consoleError
       \/ /\ user # "none"
          /\ consoleError' = "Error scheduling notification:"
          /\ outcome' = [ operation |-> action, failure |-> "insert",
                          logs |-> << "Error scheduling notification:" >>,
                          notices |-> << ErrorNotice("Failed to schedule notification"),
                                         SuccessNotice(SuccessOf[action]) >> ]
          /\ UNCHANGED <<notification_rows, notifications>>
    /\ toast' = SuccessOf[action]
    /\ UNCHANGED <<notDashboard, tasks, mood_entries, voice_sessions, stats>>

\* loadStats, from its call to its return.  The error of none of the three
\* selects is read: a select that failed gives null data, which counts as no
\* rows.
LoadStats ==
    /\ user # "none"
    /\ \E taskOk \in BOOLEAN, moodOk \in BOOLEAN, voiceOk \in BOOLEAN :
           /\ stats' = statsOf(IF taskOk THEN << tasks >> ELSE << >>,
                               IF moodOk THEN << mood_entries >> ELSE << >>,
                               IF voiceOk THEN << voice_sessions >> ELSE << >>)
           /\ outcome' = [ operation |-> "loadStats",
                           failure   |-> IF taskOk /\ moodOk /\ voiceOk THEN "" ELSE "select",
                           logs      |-> << >>,
                           notices   |-> << >> ]
    /\ UNCHANGED <<notDashboard, noticeVars, notification_rows, notifications>>
    /\ UNCHANGED <<tasks, mood_entries, voice_sessions>>

NextDashboard ==
    \/ LoadNotifications
    \/ \E action \in ScheduleActions : HandleQuickAction(action)
    \/ LoadStats

SpecDashboard == InitDashboard /\ [][NextDashboard]_vars

\* C20: an operation in which a persistence call failed has logged the
\* failure and has shown an error notice.
C20_EveryFailureLoggedAndShown ==
    outcome.failure # "" =>
        /\ outcome.logs # << >>
        /\ \E i \in 1..Len(outcome.notices) : outcome.notices[i].kind = "error"

\* C23: when handleQuickAction has shown the success notice of a scheduling
\* action, scheduling has not failed and a notification of the action's type
\* and time for the current user is in the store and in the notifications
\* list.
C23_SuccessNoticeOnlyIfStored ==
    \A action \in ScheduleActions :
        (/\ outcome.operation = action
         /\ \E i \in 1..Len(outcome.notices) :
                outcome.notices[i] = SuccessNotice(SuccessOf[action])) =>
            /\ outcome.failure = ""
            /\ user # "none"
            /\ \E i \in 1..Len(notification_rows) :
                   notification_rows[i] = NotificationRow(user, action)
            /\ \E i \in 1..Len(notifications) :
                   notifications[i] = NotificationRow(user, action)

\* The rows of list from the i-th on occur in this order among the rows of
\* table from the j-th on.
RECURSIVE OccursInOrder(_, _, _, _)
OccursInOrder(list, i, table, j) ==
    IF i > Len(list) THEN TRUE
    ELSE IF j > Len(table) THEN FALSE
    ELSE IF list[i] = table[j] THEN OccursInOrder(list, i + 1, table, j + 1)
    ELSE OccursInOrder(list, i, table, j + 1)

\* C22: the displayed messages are messages of the current session, none
\* without a current session, in the order of the store (chronological).
C22_MessagesOfCurrentSessionInOrder ==
    /\ currentSession = << >> => messages = << >>
    /\ currentSession # << >> =>
           \A i \in 1..Len(messages) : messages[i].session_id = currentSession[1]
    /\ OccursInOrder(messages, 1, chat_messages, 1)

(***************************************************************************)
(* useNotifications: scheduleNotification with its browser timer, over a   *)
(* clock in minutes.                                                       *)
(***************************************************************************)
MaxReminders == 2

\* 30 * 60 * 1000 ms
ReminderLead == 30

\* setDate(getDate() + 1): a day, in minutes
MinutesPerDay == 1440

\* setHours(9, 0, 0, 0)
MoodMinute == 540

\* setHours(20, 0, 0, 0)
SummaryMinute == 1200

\* setTimeout keeps its delay as a 32-bit signed number of milliseconds:
\* 2147483647 ms are 35791 minutes and a part of one.
MaxTimeoutMinutes == 35791

\* The times the clock is read at: 10:00 and 21:00 of the first day, 10:00
\* of the second, and a day a month later.
Moments == { 600, 1260, 2040, 44000 }

\* The due dates of the tasks: in 20 minutes, in 100 minutes, in a month.
DueDates == { 620, 700, 45000 }

\* The midnight before t.
startOfDay(t) == (t \div MinutesPerDay) * MinutesPerDay

\* The delay setTimeout waits for, given a positive delay of whole minutes
\* below 2^32 ms: a delay above 2^31 - 1 ms wraps to a negative number, which
\* is taken as no delay.
timerDelay(delay) == IF delay > MaxTimeoutMinutes THEN 0 ELSE delay

\* The row scheduleNotification inserts.
notificationRow(userId, type, scheduledFor) ==
    [ user_id |-> userId, type |-> type, scheduled_for |-> scheduledFor ]

\* list without its i-th element
removeAt(list, i) == SubSeq(list, 1, i - 1) \o SubSeq(list, i + 1, Len(list))

InitReminders ==
    /\ text = ""
    /\ typed = 0
    /\ pc = "compose"
    /\ words = << >>
    /\ positiveCount = 0
    /\ negativeCount = 0
    /\ stressCount = 0
    /\ returned = << >>
    /\ user = "u1"
    /\ chat_messages = << >>
    /\ mood_analytics = << >>
    /\ encrypted_data = << >>
    /\ sessions = << >>
    /\ currentSession = << >>
    /\ messages = << >>
    /\ loading = TRUE
    /\ reports = [ r \in ReportIds |-> IdleReport ]
    /\ analyses = { }
    /\ toast = ""
    /\ consoleError = ""
    /\ ChatAtRest
    /\ SettingsAtRest
    /\ DashboardAtRest
    /\ now = 600
    /\ permission = "default"
    /\ scheduling = { }
    /\ timers = << >>
    /\ fired = << >>

\* What no action of the reminders changes.
notReminders ==
    <<analyzeVars, storeVars, hookVars, reportVars, chatVars, settingsVars>>

\* requestNotificationPermission: the user grants or denies.
RequestNotificationPermission ==
    /\ permission = "default"
    /\ permission' \in { "granted", "denied" }
    /\ UNCHANGED <<notReminders, dashboardVars, noticeVars, now, scheduling, timers, fired>>

\* scheduleNotification(type, ..., scheduledFor) up to its await: the insert
\* is sent.
scheduleNotification(type, scheduledFor) ==
    /\ user # "none"
    /\ Len(notification_rows) + Cardinality(scheduling) < MaxReminders
    /\ scheduling' = scheduling \cup { [ type |-> type, scheduled_for |-> scheduledFor ] }
    /\ UNCHANGED <<notReminders, dashboardVars, noticeVars, now, permission, timers, fired>>

\* scheduleTaskReminder(taskTitle, dueDate)
ScheduleTaskReminder(dueDate) == scheduleNotification("task_reminder", dueDate - ReminderLead)

\* scheduleMoodReminder(): 9:00 of the next day
ScheduleMoodReminder ==
    scheduleNotification("mood_reminder", startOfDay(now) + MinutesPerDay + MoodMinute)

\* scheduleDailySummary(): 20:00 of this day
ScheduleDailySummary ==
    scheduleNotification("daily_summary", startOfDay(now) + SummaryMinute)

\* The insert of scheduleNotification returns.  An error is logged and shown.
\* Else the row is stored and added to notifications, and with the permission
\* granted and the time still ahead a timer is set for the time left.
ScheduleNotificationReturned(request) ==
    /\ request \in scheduling
    /\ scheduling' = scheduling \ { request }
    /\ \/ /\ consoleError' = "Error scheduling notification:"
          /\ toast' = "Failed to schedule notification"
          /\ UNCHANGED <<notification_rows, notifications, timers>>
       \/ /\ notification_rows' =
                 Append(notification_rows,
                        notificationRow(user, request.type, request.scheduled_for))
          /\ notifications' =
                 Append(notifications,
                        notificationRow(user, request.type, request.scheduled_for))
          /\ timers' =
                 IF permission = "granted" /\ request.scheduled_for - now > 0
                 THEN Append(timers,
                             [ type          |-> request.type,
                               scheduled_for |-> request.scheduled_for,
                               setAt         |-> now,
                               fireAt        |-> now + timerDelay(request.scheduled_for - now) ])
                 ELSE timers
          /\ UNCHANGED noticeVars
    /\ UNCHANGED <<notReminders, tasks, mood_entries, voice_sessions, stats, outcome>>
    /\ UNCHANGED <<now, permission, fired>>

\* Time passes.
Advance(moment) ==
    /\ moment > now
    /\ now' = moment
    /\ UNCHANGED <<notReminders, dashboardVars, noticeVars, permission, scheduling, timers, fired>>

\* The callback of a timer whose delay has passed runs: new Notification(...).
TimerFired(i) ==
    /\ i \in 1..Len(timers)
    /\ now >= timers[i].fireAt
    /\ fired' = Append(fired, [ type          |-> timers[i].type,
                                scheduled_for |-> timers[i].scheduled_for,
                                setAt         |-> timers[i].setAt,
                                at            |-> now ])
    /\ timers' = removeAt(timers, i)
    /\ UNCHANGED <<notReminders, dashboardVars, noticeVars, now, permission, scheduling>>

NextReminders ==
    \/ RequestNotificationPermission
    \/ \E dueDate \in DueDates : ScheduleTaskReminder(dueDate)
    \/ ScheduleMoodReminder
    \/ ScheduleDailySummary
    \/ \E request \in scheduling : ScheduleNotificationReturned(request)
    \/ \E moment \in Moments : Advance(moment)
    \/ \E i \in 1..MaxReminders : TimerFired(i)

SpecReminders == InitReminders /\ [][NextReminders]_vars

\* How many rows of list are of this type and time.
CountOf(list, type, scheduledFor) ==
    Len(SelectSeq(list, LAMBDA n : n.type = type /\ n.scheduled_for = scheduledFor))

\* C24: a task reminder is stored for 30 minutes before a due date; a browser
\* notification is shown only for a stored notification whose time was ahead
\* when it was scheduled, not before that time, and once at most.
C24_FiresOnceNotBeforeItsTime ==
    /\ \A i \in 1..Len(notification_rows) :
           notification_rows[i].type = "task_reminder" =>
               notification_rows[i].scheduled_for + ReminderLead \in DueDates
    /\ \A i \in 1..Len(fired) :
           /\ fired[i].scheduled_for > fired[i].setAt
           /\ fired[i].at >= fired[i].scheduled_for
           /\ CountOf(fired, fired[i].type, fired[i].scheduled_for)
                  <= CountOf(notification_rows, fired[i].type, fired[i].scheduled_for)

(***************************************************************************)
(* VoiceAI: typed and spoken input, with two calls of processChatInput.    *)
(***************************************************************************)
VoiceSessionIds == { "s3", "s4" }
TypedTexts == { "hello" }
Transcripts == { "hello", " " }

\* settings of the useSettings instance of VoiceAI
voiceAiSettings == settingsHooks["h1"].settings

\* The component at rest over the store of InitChat: the sessions loaded, no
\* session or session s1 selected and its messages loaded, and the
\* voice_recordings setting of the user on or off.
InitVoice ==
    /\ text = ""
    /\ typed = 0
    /\ pc = "compose"
    /\ words = << >>
    /\ positiveCount = 0
    /\ negativeCount = 0
    /\ stressCount = 0
    /\ returned = << >>
    /\ user \in { "none", "u1" }
    /\ chat_messages = InitialChatHistory
    /\ mood_analytics = << >>
    /\ encrypted_data = << >>
    /\ chat_sessions = << "s1", "s2" >>
    /\ sessions = IF user = "none" THEN << >> ELSE chat_sessions
    /\ currentSession \in IF user = "none" THEN { << >> } ELSE { << >>, << "s1" >> }
    /\ messages =
           IF currentSession = << >> THEN << >>
           ELSE matchingRows(chat_messages, currentSession[1], user)
    /\ loading = (user = "none")
    /\ reports = [ r \in ReportIds |-> IdleReport ]
    /\ analyses = { }
    /\ toast = ""
    /\ consoleError = ""
    /\ isProcessing = FALSE
    /\ chat = [ c \in ChatIds |-> IdleChat ]
    /\ loadRequests = { }
    /\ aiRequest = << >>
    /\ textInput = ""
    /\ isListening = FALSE
    /\ recognition = "off"
    /\ titles =
           [ store   |-> InitialTitles,
             list    |-> IF user = "none" THEN << >> ELSE InitialTitles,
             current |-> IF currentSession = << >> THEN << >>
                         ELSE << InitialTitles[currentSession[1]] >> ]
    /\ sessionRequests = { }
    /\ user_settings = << >>
    /\ \E recordings \in BOOLEAN :
           settingsHooks =
               [ h \in SettingsHookIds |->
                   [ NewSettingsHook EXCEPT
                       !.settings = [ defaultSettings EXCEPT !.voice_recordings = recordings ],
                       !.loading = FALSE ] ]
    /\ DashboardAtRest
    /\ RemindersAtRest

NextVoice ==
    \/ \E input \in TypedTexts : TypeText(input)
    \/ \E c \in ChatIds : HandleTextSubmit(c)
    \/ StartVoiceRecognition
    \/ \E c \in ChatIds, transcript \in Transcripts : RecognitionResult(c, transcript)
    \/ RecognitionError
    \/ RecognitionEnd
    \/ \E c \in ChatIds : ChatSessionCreated(c, VoiceSessionIds)
    \/ \E c \in ChatIds : ChatUserMessageAdded(c)
    \/ \E c \in ChatIds : ChatAiResponded(c)
    \/ \E c \in ChatIds : ChatAiMessageAdded(c)

SpecVoice == InitVoice /\ [][NextVoice]_vars

\* The component with one call of processChatInput in flight at a time.
NextExchange ==
    \/ \E input \in TypedTexts : TypeText(input)
    \/ HandleTextSubmit("c1")
    \/ StartVoiceRecognition
    \/ \E transcript \in Transcripts : RecognitionResult("c1", transcript)
    \/ RecognitionError
    \/ RecognitionEnd
    \/ ChatSessionCreated("c1", VoiceSessionIds)
    \/ ChatUserMessageAdded("c1")
    \/ ChatAiResponded("c1")
    \/ ChatAiMessageAdded("c1")

\* Every request processChatInput awaits is answered: the promises of the
\* store and of getGeminiResponse settle.
SpecExchangeFair ==
    /\ InitVoice
    /\ [][NextExchange]_vars
    /\ WF_vars(ChatSessionCreated("c1", VoiceSessionIds))
    /\ WF_vars(ChatUserMessageAdded("c1"))
    /\ WF_vars(ChatAiResponded("c1"))
    /\ WF_vars(ChatAiMessageAdded("c1"))

\* The call has set isProcessing and has not returned.
Processing(c) == chat[c].pc \in { "addUser", "ai", "addAi" }

\* C27: a call of processChatInput that has set isProcessing eventually
\* returns with isProcessing false and the text input empty, whatever the
\* store and the AI collaborator answer; and isProcessing is set, a message
\* stored and an AI request sent only by a call that has a user, an input
\* that is not blank and a session, so never by one that returned for a
\* blank input, without a user or after createNewSession failed.
C27_ProcessingResetAndNeverSetEarly ==
    /\ \A c \in ChatIds :
           Processing(c) ~> (chat[c].pc = "idle" /\ ~isProcessing /\ textInput = "")
    /\ [][ /\ \A c \in ChatIds :
                  Processing(c)' =>
                      /\ user # "none"
                      /\ trim(chat'[c].input) # ""
                      /\ chat'[c].sessionToUse # << >>
                      /\ chat'[c].sessionToUse[1] \in Range(chat_sessions')
           /\ (isProcessing' /\ ~isProcessing) =>
                  \E c \in ChatIds : ~Processing(c) /\ Processing(c)'
           /\ (chat_messages' # chat_messages \/ aiRequest' # aiRequest) =>
                  \E c \in ChatIds : Processing(c)
           /\ \A c \in ChatIds :
                  (chat[c].pc = "create" /\ chat'[c].pc = "idle") =>
                      UNCHANGED <<isProcessing, chat_messages, aiRequest, textInput>> ]_vars

\* A call made without a current session has created its session, stored
\* both messages after an AI failure and returned.
C27_Witness ==
    /\ chat["c1"].pc = "idle"
    /\ ~isProcessing
    /\ textInput = ""
    /\ consoleError = "Gemini API error:"
    /\ Len(chat_messages) = Len(InitialChatHistory) + 2
    /\ chat_messages[Len(chat_messages)].session_id \in VoiceSessionIds

\* C26: at most one call of processChatInput is in flight.
C26_OneProcessChatInputInFlight ==
    Cardinality({ c \in ChatIds : chat[c].pc # "idle" }) <= 1

\* In list every AI message comes directly after a user message of its session.
AnswersInPlace(list) ==
    \A i \in 1..Len(list) :
        list[i].message_type = "ai" =>
            /\ i > 1
            /\ list[i - 1].message_type = "user"
            /\ list[i - 1].session_id = list[i].session_id

\* C28: a call of processChatInput that stores its user message has a stored
\* session, the AI is called and its message stored only after the user
\* message was stored, and in the store and in messages every AI message
\* comes directly after the user message it answers.
C28_ExchangeStepsInOrder ==
    /\ \A c \in ChatIds :
           /\ Processing(c) => chat[c].sessionToUse[1] \in Range(chat_sessions)
           /\ chat[c].pc \in { "ai", "addAi" } => chat[c].userInserted
    /\ AnswersInPlace(chat_messages)
    /\ AnswersInPlace(messages)

\* C30: the notice 'AI response generated!' is shown only by a call whose AI
\* response is a completion and whose two messages were stored, and no AI
\* request is in flight or answered for a call whose user message was not
\* stored.
C30_SuccessNoticeOnlyAfterFullExchange ==
    [][ \A c \in ChatIds :
            /\ (chat[c].pc = "addAi" /\ chat'[c].pc = "idle" /\ toast' = "AI response generated!") =>
                   /\ chat[c].aiResponse # AiFallback
                   /\ chat[c].userInserted
                   /\ chat_messages' =
                          Append(chat_messages,
                                 ChatMessageRow(chat[c].sessionToUse[1], user, "ai",
                                                chat[c].aiResponse))
            /\ chat'[c].pc \in { "ai", "addAi" } => chat'[c].userInserted ]_vars

\* C21: while the voice_recordings setting is false no step stores an
\* encrypted copy.
C21_NoEncryptedCopyWhenDisabled ==
    [][ ~voiceAiSettings.voice_recordings => encrypted_data' = encrypted_data ]_vars

(***************************************************************************)
(* useChatSessions: createNewSession, addMessage, deleteSession and        *)
(* updateSessionTitle, with the session list of VoiceAI.                   *)
(***************************************************************************)
MaxSessionRequests == 1

\* What a session may be renamed to.
NewTitles == { "Plans" }

\* f without its value at key
without(f, key) == [ k \in DOMAIN f \ { key } |-> f[k] ]

\* f with value at key, if it has one there
replaced(f, key, value) == [ k \in DOMAIN f |-> IF k = key THEN value ELSE f[k] ]

\* The store holds sessions s1 and s2 of the user and one message of s1; the
\* hook has loaded the sessions.
InitSessions ==
    /\ text = ""
    /\ typed = 0
    /\ pc = "compose"
    /\ words = << >>
    /\ positiveCount = 0
    /\ negativeCount = 0
    /\ stressCount = 0
    /\ returned = << >>
    /\ user = "u1"
    /\ chat_messages = << ChatMessageRow("s1", "u1", "user", "good") >>
    /\ mood_analytics = << >>
    /\ encrypted_data = << >>
    /\ sessions = << "s1", "s2" >>
    /\ currentSession = << >>
    /\ messages = << >>
    /\ loading = FALSE
    /\ reports = [ r \in ReportIds |-> IdleReport ]
    /\ analyses = { }
    /\ toast = ""
    /\ consoleError = ""
    /\ chat_sessions = << "s1", "s2" >>
    /\ isProcessing = FALSE
    /\ chat = [ c \in ChatIds |-> IdleChat ]
    /\ loadRequests = { }
    /\ aiRequest = << >>
    /\ textInput = ""
    /\ isListening = FALSE
    /\ recognition = "off"
    /\ titles = [ store |-> InitialTitles, list |-> InitialTitles, current |-> << >> ]
    /\ sessionRequests = { }
    /\ SettingsAtRest
    /\ DashboardAtRest
    /\ RemindersAtRest

\* What deleteSession and updateSessionTitle leave alone.
notSessions ==
    <<analyzeVars, user, chat_messages, mood_analytics, encrypted_data, loading, reportVars,
      isProcessing, chat, loadRequests, aiRequest, textInput, isListening, recognition, notChat>>

\* deleteSession(sessionId) or updateSessionTitle(sessionId, title) up to its
\* await: the request is sent.  currentSession is that of the render the
\* function belongs to.
sessionRequest(op, sessionId, title) ==
    /\ user # "none"
    /\ sessionId \in Range(sessions)
    /\ Cardinality(sessionRequests) < MaxSessionRequests
    /\ sessionRequests' =
           sessionRequests \cup
               { [ op |-> op, sessionId |-> sessionId, title |-> title,
                   currentSession |-> currentSession ] }
    /\ UNCHANGED <<notSessions, chat_sessions, sessions, currentSession, messages, titles, noticeVars>>

\* The delete button of a session of the list.
DeleteSession(sessionId) == sessionRequest("delete", sessionId, "")

\* handleTitleUpdate(sessionId, newTitle)
UpdateSessionTitle(sessionId, title) == sessionRequest("update", sessionId, title)

\* The delete of deleteSession returns.  An error is logged and shown.  Else
\* the row is gone, the session is filtered out of sessions, and if it is the
\* currentSession of the render of the call, currentSession and messages are
\* emptied.
DeleteSessionReturned(request) ==
    /\ request \in sessionRequests
    /\ request.op = "delete"
    /\ sessionRequests' = sessionRequests \ { request }
    /\ \/ /\ consoleError' = "Error deleting session:"
          /\ toast' = "Failed to delete session"
          /\ UNCHANGED <<chat_sessions, sessions, currentSession, messages, titles>>
       \/ /\ chat_sessions' = SelectSeq(chat_sessions, LAMBDA id : id # request.sessionId)
          /\ sessions' = SelectSeq(sessions, LAMBDA id : id # request.sessionId)
          /\ IF request.currentSession = << request.sessionId >>
             THEN /\ currentSession' = << >>
                  /\ messages' = << >>
             ELSE UNCHANGED <<currentSession, messages>>
          /\ titles' =
                 [ store   |-> without(titles.store, request.sessionId),
                   list    |-> without(titles.list, request.sessionId),
                   current |-> IF request.currentSession = << request.sessionId >>
                               THEN << >> ELSE titles.current ]
          /\ toast' = "Chat session deleted"
          /\ UNCHANGED consoleError
    /\ UNCHANGED notSessions

\* The update of updateSessionTitle returns.  An error is logged and shown.
\* Else the row has the title, the session of sessions has it, and if it is
\* the currentSession of the render of the call, the currentSession of now
\* gets it.
UpdateSessionTitleReturned(request) ==
    /\ request \in sessionRequests
    /\ request.op = "update"
    /\ sessionRequests' = sessionRequests \ { request }
    /\ \/ /\ consoleError' = "Error updating session title:"
          /\ toast' = "Failed to update title"
          /\ UNCHANGED titles
       \/ /\ titles' =
                 [ store   |-> replaced(titles.store, request.sessionId, request.title),
                   list    |-> replaced(titles.list, request.sessionId, request.title),
                   current |-> IF request.currentSession = << request.sessionId >>
                                  /\ titles.current # << >>
                               THEN << request.title >> ELSE titles.current ]
          /\ toast' = "Session title updated"
          /\ UNCHANGED consoleError
    /\ UNCHANGED <<notSessions, chat_sessions, sessions, currentSession, messages>>

NextSessions ==
    \/ \E sessionId \in SessionIds : HandleSessionSelect(sessionId)
    \/ \E sessionId \in SessionIds : LoadMessagesReturned(sessionId)
    \/ HandleNewChat
    \/ \E content \in ChatInputs :
           currentSession # << >> /\ AddMessage(currentSession[1], "user", content)
    \/ \E sessionId \in SessionIds : DeleteSession(sessionId)
    \/ \E sessionId \in SessionIds, title \in NewTitles : UpdateSessionTitle(sessionId, title)
    \/ \E request \in sessionRequests : DeleteSessionReturned(request)
    \/ \E request \in sessionRequests : UpdateSessionTitleReturned(request)

SpecSessions == InitSessions /\ [][NextSessions]_vars

\* C25: currentSession is null or a session of sessions, with the title that
\* session has in sessions.
C25_CurrentSessionIsListed ==
    /\ currentSession = << >> => titles.current = << >>
    /\ currentSession # << >> =>
           /\ currentSession[1] \in Range(sessions)
           /\ titles.current = << titles.list[currentSession[1]] >>

\* C29: a session operation whose request to the store failed leaves
\* sessions, currentSession and messages as they were, and after one that
\* succeeded they are as the store is: the new session first and current with
\* no messages, the deleted session in neither, the new title in both.
C29_LocalStateFollowsStore ==
    [][ /\ ( /\ toast' # toast
             /\ toast' \in { "Failed to create new session", "Failed to delete session",
                             "Failed to update title" } ) =>
               UNCHANGED <<sessions, currentSession, messages, titles>>
        /\ (toast' # toast /\ toast' = "Failed to save message" /\ chat_messages' = chat_messages) =>
               UNCHANGED <<sessions, currentSession, messages, titles>>
        /\ chat_sessions' # chat_sessions /\ Len(chat_sessions') > Len(chat_sessions) =>
               /\ sessions' = << chat_sessions'[1] >> \o sessions
               /\ currentSession' = << chat_sessions'[1] >>
               /\ titles'.current = << titles'.store[chat_sessions'[1]] >>
               /\ messages' = << >>
        /\ \A request \in sessionRequests \ sessionRequests' :
               /\ toast' = "Chat session deleted" =>
                      /\ request.sessionId \notin Range(chat_sessions')
                      /\ request.sessionId \notin Range(sessions')
                      /\ currentSession' # << request.sessionId >>
               /\ toast' = "Session title updated" =>
                      /\ \A id \in DOMAIN titles'.list : titles'.list[id] = titles'.store[id]
                      /\ currentSession' = << request.sessionId >> =>
                             titles'.current = << request.title >> ]_vars

====
